---------------------------- MODULE Spec2Model ----------------------------
(***************************************************************************)
(* PkgGuard: trust scoring of package names (Python and JavaScript         *)
(* engines, ignore registry, trust cache) and the command-approval         *)
(* workflow of the PkgGuard terminals.                                     *)
(*                                                                         *)
(* Units.  Time is counted in days (Date.now() / (1000*60*60*24)).  A      *)
(* numeric score is carried in units of 1/Scale so that the fractional     *)
(* release-age term (releaseAge / 100) * 15 stays an integer; download     *)
(* counts are powers of ten so that Math.log10 is exact.                   *)
(***************************************************************************)
EXTENDS Integers, Sequences, FiniteSets, TLC

VARIABLES
    \* scoring module state (src/scoring/index.ts)
    ignoreFile,            \* lines of .pkgguard/.pkgguard-ignore
    ignoredPackages,       \* Map<string,string>: package -> note
    cacheData,             \* persistent cache: <<language, name>> -> entry
    cache,                 \* ScoringEngine.cache of the long-lived engine
    now,                   \* Date.now(), in days
    lastScore,             \* the last calculateScore call and its result
    ops,                   \* operations performed on the scoring module
    \* terminal state (src/terminal/*.ts)
    variant,               \* which terminal class is running
    config,                \* the workspace configuration the terminal reads
    currentInput,          \* the command line typed so far
    checks,                \* the security checks started, in order; a finished
                           \* one leaves a blank record behind
    pendingSecurityCheck,  \* the approval request awaiting input
    isInSecurityPrompt,    \* the prompt flag
    handlers,              \* suspended d / i prompt handlers
    finished,              \* the check the last step finished, its decision
                           \* and the line it made the shell run
    shellLine,             \* what the wrapped shell has received of its line
    lastWrite,             \* what the last step wrote to the terminal
    lastInput              \* the key the last step gave to the prompt handler

scoreVars == <<ignoreFile, ignoredPackages, cacheData, cache, now, lastScore, ops>>
termVars == <<variant, config, currentInput, checks, pendingSecurityCheck,
              isInSecurityPrompt, handlers, finished, shellLine, lastWrite, lastInput>>
vars == <<scoreVars, termVars>>

---------------------------------------------------------------------------
\* Bounds of the model.

MaxOps == 2
MaxTicks == 3
MaxChecks == 2
MaxHandlers == 1
Epoch == 1000

---------------------------------------------------------------------------
\* Program constants.

CacheTTLSeconds == 172800
NullScore == -1

WEIGHTS ==
    [exists |-> 40, downloads |-> 20, releaseAge |-> 15,
     multipleMaintainers |-> 5, vulnerabilities |-> -10]

SecondsPerDay == 60 * 60 * 24
Scale == 100 \div 5

PYTHON_STDLIB == {"os", "json", "sys"}
NODE_BUILTINS == {"os", "fs", "path"}

topPyPiPackages == <<"flask">>
topPyPiDownloads == [p \in {"flask"} |-> 500000000]
topNpmPackages == <<"react">>
topNpmDownloads == [p \in {"react"} |-> 20000000]

Ecosystems == {"python", "javascript"}
PyNames == {"os", "flask", "flsk", "evil"}
JsNames == {"os", "react", "evil"}
Names == PyNames \cup JsNames
NamesOf(eco) == IF eco = "python" THEN PyNames ELSE JsNames

---------------------------------------------------------------------------
\* Strings.

Chars(s) ==
    CASE s = "os" -> <<"o", "s">>
      [] s = "flask" -> <<"f", "l", "a", "s", "k">>
      [] s = "Flask" -> <<"F", "l", "a", "s", "k">>
      [] s = "flsk" -> <<"f", "l", "s", "k">>
      [] s = "react" -> <<"r", "e", "a", "c", "t">>
      [] s = "react-dom" -> <<"r", "e", "a", "c", "t", "-", "d", "o", "m">>
      [] s = "evil" -> <<"e", "v", "i", "l">>
      [] OTHER -> <<>>

toLowerCase(s) == IF s = "Flask" THEN "flask" ELSE s

Range(f) == {f[i] : i \in DOMAIN f}
Max(a, b) == IF a >= b THEN a ELSE b
Min(a, b) == IF a <= b THEN a ELSE b
Front(s) == SubSeq(s, 1, Len(s) - 1)
Last(s) == s[Len(s)]

\* Row i of the edit-distance matrix, columns 0..j, from row i-1 (prev);
\* column j is held at index j+1.
RECURSIVE MatrixRow(_, _, _, _)
MatrixRow(prev, aChar, b, j) ==
    IF j = 0 THEN <<prev[1] + 1>>
    ELSE LET row == MatrixRow(prev, aChar, b, j - 1)
             up == prev[j + 1]
             left == row[j]
             diag == prev[j]
         IN  Append(row, Min(Min(up + 1, left + 1),
                             diag + (IF aChar = b[j] THEN 0 ELSE 1)))

RECURSIVE Matrix(_, _, _)
Matrix(a, b, i) ==
    IF i = 0 THEN [j \in 1..(Len(b) + 1) |-> j - 1]
    ELSE MatrixRow(Matrix(a, b, i - 1), a[i], b, Len(b))

levenshtein(a, b) ==
    IF Len(a) = 0 \/ Len(b) = 0 THEN Max(Len(a), Len(b))
    ELSE Matrix(a, b, Len(a))[Len(b) + 1]

\* The first top package at edit distance 1, or "" (null).
isTyposquat(name) ==
    LET lower == toLowerCase(name)
        hits == {i \in DOMAIN topPyPiPackages :
                    /\ lower # toLowerCase(topPyPiPackages[i])
                    /\ levenshtein(Chars(lower), Chars(toLowerCase(topPyPiPackages[i]))) = 1}
    IN  IF hits = {} THEN ""
        ELSE toLowerCase(topPyPiPackages[CHOOSE i \in hits : \A j \in hits : i <= j])

---------------------------------------------------------------------------
\* Registry metadata (RegistryInfo) and GitHub statistics.

NoStats == [present |-> FALSE, stars |-> 0, forks |-> 0, lastCommit |-> 0]

\* What the adapters return for HTTP 404.
NotFound ==
    [exists |-> FALSE, downloads |-> 0, latestRelease |-> 0, maintainerCount |-> 0,
     highVulnCount |-> 0, githubRepo |-> FALSE, githubStats |-> NoStats]

\* exists = false with every other signal favourable.
Vanished ==
    [exists |-> FALSE, downloads |-> 1000000000, latestRelease |-> Epoch - 10,
     maintainerCount |-> 3, highVulnCount |-> 0, githubRepo |-> TRUE,
     githubStats |-> [present |-> TRUE, stars |-> 5000, forks |-> 500,
                      lastCommit |-> Epoch - 5]]

Popular ==
    [exists |-> TRUE, downloads |-> 1000000000, latestRelease |-> Epoch - 10,
     maintainerCount |-> 3, highVulnCount |-> 0, githubRepo |-> TRUE,
     githubStats |-> [present |-> TRUE, stars |-> 5000, forks |-> 500,
                      lastCommit |-> Epoch - 5]]

Obscure ==
    [exists |-> TRUE, downloads |-> 100, latestRelease |-> Epoch - 96,
     maintainerCount |-> 1, highVulnCount |-> 0, githubRepo |-> TRUE,
     githubStats |-> [present |-> TRUE, stars |-> 3, forks |-> 0,
                      lastCommit |-> Epoch - 900]]

NoReleases ==
    [exists |-> TRUE, downloads |-> 100000, latestRelease |-> 0, maintainerCount |-> 2,
     highVulnCount |-> 0, githubRepo |-> FALSE, githubStats |-> NoStats]

\* Released three days ago by a single maintainer, well downloaded.
Trending ==
    [exists |-> TRUE, downloads |-> 100000, latestRelease |-> Epoch - 3,
     maintainerCount |-> 1, highVulnCount |-> 0, githubRepo |-> FALSE,
     githubStats |-> NoStats]

\* Released today, every signal of the base score at its maximum, no
\* repository linked.
Blockbuster ==
    [exists |-> TRUE, downloads |-> 1000000000, latestRelease |-> Epoch,
     maintainerCount |-> 3, highVulnCount |-> 0, githubRepo |-> FALSE,
     githubStats |-> NoStats]

\* Known vulnerabilities, no downloads, an old release, one maintainer.
Vulnerable ==
    [exists |-> TRUE, downloads |-> 0, latestRelease |-> Epoch - 200,
     maintainerCount |-> 1, highVulnCount |-> 5, githubRepo |-> FALSE,
     githubStats |-> NoStats]

\* adapter.meta(name) throws: no metadata; a caller that substitutes a record
\* for the failure uses one that equals NotFound.
Threw == [threw |-> TRUE, info |-> NotFound]

Infos ==
    {NotFound, Vanished, Popular, Obscure, NoReleases, Trending, Blockbuster, Vulnerable}

---------------------------------------------------------------------------
\* Scoring (src/scoring/index.ts).

RECURSIVE Log10(_)
Log10(n) == IF n < 10 THEN 0 ELSE 1 + Log10(n \div 10)

\* Math.round of a value held in 1/Scale units.
Round(s) == (2 * s + Scale) \div (2 * Scale)

\* A clamp that lets every value through.
Clamp_Off(lo, hi, x) == x

\* Math.max(lo, Math.min(hi, x))
Clamp(lo, hi, x) == Max(lo, Min(hi, x))

calculateReleaseAge(latestRelease, t) ==
    IF latestRelease = 0 THEN 0 ELSE Max(0, 100 - (t - latestRelease))

Evidence(info, t) ==
    [exists |-> info.exists,
     downloads |-> info.downloads,
     releaseAge |-> calculateReleaseAge(info.latestRelease, t),
     multipleMaintainers |-> info.maintainerCount >= 2,
     vulnerabilities |-> info.highVulnCount,
     maintainerCount |-> info.maintainerCount]

\* ScoringEngine.computeScore, in 1/Scale units.
computeScore(evidence) ==
    Clamp(0, 100 * Scale,
          (IF evidence.exists THEN WEIGHTS.exists * Scale ELSE 0)
          + (IF evidence.downloads > 0
             THEN Min(WEIGHTS.downloads * Scale, Log10(evidence.downloads) * 5 * Scale)
             ELSE 0)
          + (evidence.releaseAge * WEIGHTS.releaseAge * Scale) \div 100
          + (IF evidence.multipleMaintainers THEN WEIGHTS.multipleMaintainers * Scale ELSE 0)
          + evidence.vulnerabilities * WEIGHTS.vulnerabilities * Scale)

\* JavaScriptScoringEngine.computeScore, in 1/Scale units.
jsComputeScore(evidence) ==
    Clamp(0, 100 * Scale,
          (IF evidence.exists THEN 40 * Scale ELSE 0)
          + (IF evidence.downloads > 0
             THEN Min(20 * Scale, Log10(evidence.downloads) * 5 * Scale)
             ELSE 0)
          + (evidence.releaseAge * 15 * Scale) \div 100
          + (IF evidence.multipleMaintainers THEN 5 * Scale ELSE 0)
          + evidence.vulnerabilities * (-10) * Scale)

determineLevel(score) ==
    IF score >= 80 * Scale THEN "high"
    ELSE IF score >= 50 * Scale THEN "medium"
    ELSE "low"

jsDetermineLevel(score) ==
    IF score >= 75 * Scale THEN "high"
    ELSE IF score >= 45 * Scale THEN "medium"
    ELSE "low"

\* Risk-factor classification, the same in both engines.
HighRiskFactors(info, evidence, topDownloads, t) ==
    (IF /\ info.githubRepo
        /\ info.githubStats.present
        /\ info.githubStats.lastCommit > 0
        /\ (t - info.githubStats.lastCommit) \div 365 >= 2
     THEN {"No updates on GitHub for over 2 years"} ELSE {})
    \cup (IF evidence.downloads = 0 /\ topDownloads = 0
          THEN {"No download data available."} ELSE {})

MediumRiskFactors(evidence) ==
    (IF evidence.releaseAge < 7 /\ evidence.releaseAge > 0
     THEN {"Very recent release."} ELSE {})
    \cup (IF ~evidence.multipleMaintainers THEN {"Only a single maintainer."} ELSE {})
    \cup (IF evidence.downloads > 0 /\ evidence.downloads < 10000
          THEN {"Low download count (<10,000/week)."} ELSE {})

Boost(isTop, topDownloads, evidence) ==
    (IF isTop THEN 30 ELSE 0)
    + (IF topDownloads > 100000000 \/ evidence.downloads > 100000000 THEN 20
       ELSE IF topDownloads > 10000000 \/ evidence.downloads > 10000000 THEN 10
       ELSE 0)

IsPerfect(isTop, topDownloads, info, evidence, high, medium, t) ==
    /\ isTop
    /\ (topDownloads > 1000000 \/ evidence.downloads > 1000000)
    /\ info.latestRelease > 0 /\ t - info.latestRelease < 365
    /\ info.githubRepo /\ info.githubStats.present
    /\ info.githubStats.lastCommit > 0 /\ t - info.githubStats.lastCommit < 365
    /\ evidence.multipleMaintainers
    /\ high = {} /\ medium = {}

IgnoredScore(name) ==
    [packageName |-> name, score |-> NullScore, level |-> "ignored",
     scoreReasons |-> {"ignored"}, riskFactors |-> {}]

TrustedScore(name, why) ==
    [packageName |-> name, score |-> 100, level |-> "high",
     scoreReasons |-> {why}, riskFactors |-> {}]

HallucinationScore(name, reasons) ==
    [packageName |-> name, score |-> 0, level |-> "low",
     scoreReasons |-> reasons, riskFactors |-> {"does not exist or has no releases"}]

\* The score reasons that survive the filter before the result is built.
GitHubReasons(info, t) ==
    IF ~(info.githubRepo /\ info.githubStats.present) THEN {}
    ELSE LET s == info.githubStats
         IN  (IF s.stars > 1000 THEN {">1000 stars"}
              ELSE IF s.stars > 100 THEN {">100 stars"}
              ELSE IF s.stars < 10 THEN {"<10 stars"} ELSE {})
             \cup (IF s.forks > 100 THEN {">100 forks"} ELSE {})
             \cup (IF s.lastCommit > 0 /\ t - s.lastCommit < 6 * 30
                   THEN {"updated <6 months ago"} ELSE {})

EvidenceReasons(evidence) ==
    (IF ~evidence.exists THEN {"does not exist"} ELSE {})
    \cup (IF evidence.downloads > 0 /\ evidence.downloads < 10000
          THEN {"Low download count (<10,000/week)."} ELSE {})
    \cup (IF evidence.vulnerabilities > 0 THEN {"Known vulnerabilities."} ELSE {})

\* The hallucination / nonexistent-package test that precedes the result.
\* A hallucination test that looks at the release date only.
IsHallucination_ReleaseOnly(evidence, info) == info.latestRelease = 0

\* if (!evidence.exists || info.latestRelease === 0)
IsHallucination(evidence, info) == ~evidence.exists \/ info.latestRelease = 0

\* ScoringEngine.isIgnoredPackage (private): tests the note, not the key.
ScoringEngine_isIgnoredPackage(name, ignored) ==
    LET note == IF name \in DOMAIN ignored THEN ignored[name] ELSE ""
    IN  note # ""

\* isIgnoredPackage (exported): tests the key.
isIgnoredPackage(name, ignored) == name \in DOMAIN ignored

\* ScoringEngine.getCachedScore (private): the in-memory cache of one engine.
ScoringEngine_getCachedScore(cch, language, name, ttl, t) ==
    /\ <<language, name>> \in DOMAIN cch
    /\ (t - cch[<<language, name>>].timestamp) * SecondsPerDay < ttl

\* getCachedScore (exported): the persistent cache.
getCachedScore(cd, language, name, ttl, t) ==
    /\ <<language, name>> \in DOMAIN cd
    /\ ~((t - cd[<<language, name>>].timestamp) * SecondsPerDay > ttl)

EmptyMap == [x \in {} |-> ""]
Put(f, k, v) == [x \in DOMAIN f \cup {k} |-> IF x = k THEN v ELSE f[x]]
Drop(f, ks) == [x \in DOMAIN f \ ks |-> f[x]]

setCachedScore(cd, language, name, score, t) ==
    Put(cd, <<language, name>>, [score |-> score, timestamp |-> t])

\* A removeCachedScore that leaves the entry in place.
removeCachedScore_Keep(cd, language, name) == cd

\* removeCachedScore (exported): the entry is deleted from the persistent cache.
removeCachedScore(cd, language, name) == Drop(cd, {<<language, name>>})

\* ScoringEngine.calculateScore: the result and the engine's cache afterwards.
PyCalculateScore(name, info, t, ignored, cch) ==
    IF ScoringEngine_isIgnoredPackage(name, ignored)
    THEN [result |-> IgnoredScore(name), cache |-> cch]
    ELSE IF ScoringEngine_getCachedScore(cch, "python", name, CacheTTLSeconds, t)
    THEN [result |-> cch[<<"python", name>>].score, cache |-> cch]
    ELSE IF name \in PYTHON_STDLIB
    THEN [result |-> TrustedScore(name, "stdlib"), cache |-> cch]
    ELSE
    LET evidence == Evidence(info, t)
        isTop == toLowerCase(name) \in Range(topPyPiPackages)
        topDownloads == IF isTop /\ toLowerCase(name) \in DOMAIN topPyPiDownloads
                        THEN topPyPiDownloads[toLowerCase(name)] ELSE 0
        typosquat == isTyposquat(name)
        reasons == (IF isTop THEN {"top package"} ELSE {})
                   \cup (IF typosquat # "" /\ ~isTop /\ typosquat \in Range(topPyPiPackages)
                         THEN {"typosquat"} ELSE {})
                   \cup GitHubReasons(info, t)
                   \cup EvidenceReasons(evidence)
        high == HighRiskFactors(info, evidence, topDownloads, t)
        medium == MediumRiskFactors(evidence)
        riskPenalty == Cardinality(high) * 20 + Cardinality(medium) * 5
        baseScore == computeScore(evidence)
                     + (Boost(isTop, topDownloads, evidence) - riskPenalty) * Scale
        score == IF IsPerfect(isTop, topDownloads, info, evidence, high, medium, t)
                 THEN 100
                 ELSE Clamp(0, 100, Round(baseScore))
        result == [packageName |-> name, score |-> score,
                   level |-> determineLevel(score * Scale),
                   scoreReasons |-> reasons, riskFactors |-> high \cup medium]
    IN  IF IsHallucination(evidence, info)
        THEN [result |-> HallucinationScore(name, reasons), cache |-> cch]
        ELSE [result |-> result,
              cache |-> Put(cch, <<"python", name>>, [score |-> result, timestamp |-> t])]

\* JavaScriptScoringEngine.calculateScore: the result and cacheData afterwards.
JsCalculateScore(name, info, t, ignored, cd) ==
    IF isIgnoredPackage(name, ignored)
    THEN [result |-> IgnoredScore(name), cacheData |-> cd]
    ELSE IF getCachedScore(cd, "javascript", name, CacheTTLSeconds, t)
    THEN [result |-> cd[<<"javascript", name>>].score, cacheData |-> cd]
    ELSE IF name \in NODE_BUILTINS
    THEN [result |-> TrustedScore(name, "builtin"), cacheData |-> cd]
    ELSE
    LET evidence == Evidence(info, t)
        isTop == toLowerCase(name) \in Range(topNpmPackages)
        topDownloads == IF isTop /\ toLowerCase(name) \in DOMAIN topNpmDownloads
                        THEN topNpmDownloads[toLowerCase(name)] ELSE 0
        reasons == IF isTop THEN {"top package"} ELSE {}
        high == HighRiskFactors(info, evidence, topDownloads, t)
        medium == MediumRiskFactors(evidence)
        riskPenalty == Cardinality(high) * 20 + Cardinality(medium) * 5
        baseScore == jsComputeScore(evidence)
                     + (Boost(isTop, topDownloads, evidence) - riskPenalty) * Scale
        first == IF isTop THEN Max(jsComputeScore(evidence), 85 * Scale)
                 ELSE jsComputeScore(evidence)
        score == IF IsPerfect(isTop, topDownloads, info, evidence, high, medium, t)
                 THEN 100 * Scale
                 ELSE IF high # {} \/ medium # {} THEN Min(first, 95 * Scale)
                 ELSE Clamp(0, 100, Round(baseScore)) * Scale
        result == [packageName |-> name, score |-> Round(score),
                   level |-> jsDetermineLevel(score),
                   scoreReasons |-> reasons, riskFactors |-> high \cup medium]
    IN  IF IsHallucination(evidence, info)
        THEN [result |-> HallucinationScore(name, reasons), cacheData |-> cd]
        ELSE [result |-> result,
              cacheData |-> setCachedScore(cd, "javascript", name, result, t)]

---------------------------------------------------------------------------
\* The ignore file (.pkgguard/.pkgguard-ignore).  A line is the sequence of
\* its fields around '#': <<name>> or <<name, "#", note>>; <<>> is a blank line.

Notes == {"", "dev"}

Trim(s) == IF s = " " THEN "" ELSE s

\* pkgguard.ignorePackage: the line appended for a package and its note.
IgnoreLine(packageName, note) ==
    IF note # "" /\ Trim(note) # "" THEN <<packageName, "#", Trim(note)>>
    ELSE <<packageName>>

\* A write that replaces the file by the line.
AppendLine_Overwrite(file, line) == <<<<>>, line>>

\* fs.appendFileSync(ignorePath, "\n" + line): the lines the file then splits
\* into.  <<>> is the absent file; appending to it leaves a blank first line.
AppendLine(file, line) ==
    IF file = <<>> THEN <<<<>>, line>> ELSE Append(file, line)

RECURSIVE loadIgnoreFile(_)
loadIgnoreFile(lines) ==
    IF lines = <<>> THEN EmptyMap
    ELSE LET m == loadIgnoreFile(Front(lines))
             line == Last(lines)
         IN  IF line = <<>> \/ line[1] = "#" THEN m
             ELSE Put(m, line[1], IF Len(line) >= 3 THEN line[3] ELSE "")

IsPrefix(p, s) == Len(p) <= Len(s) /\ SubSeq(s, 1, Len(p)) = p

\* line.trim().startsWith(packageName)
StartsWith(line, packageName) ==
    line # <<>> /\ IsPrefix(Chars(packageName), Chars(line[1]))

---------------------------------------------------------------------------
\* Operations on the scoring module.

NoCall == [called |-> FALSE]

\* The terminal before any input.
TermIdle(v, c) ==
    /\ variant = v
    /\ config = c
    /\ currentInput = ""
    /\ checks = <<>>
    /\ pendingSecurityCheck = [set |-> FALSE]
    /\ isInSecurityPrompt = FALSE
    /\ handlers = <<>>
    /\ finished = [set |-> FALSE]
    /\ shellLine = <<>>
    /\ lastWrite = <<>>
    /\ lastInput = ""

DefaultConfig ==
    [securityMode |-> "interactive", blockingMode |-> "interactive",
     preventRiskyInstalls |-> FALSE]

ScoringIdle ==
    /\ ignoreFile = <<>>
    /\ ignoredPackages = EmptyMap
    /\ cacheData = EmptyMap
    /\ cache = EmptyMap
    /\ now = Epoch
    /\ lastScore = NoCall
    /\ ops = 0

\* pkgguard.ignorePackage: the effect of a successful run on the module state.
IgnoredState(packageName, note) ==
    /\ ignoreFile' = AppendLine(ignoreFile, IgnoreLine(packageName, note))
    /\ ignoredPackages' = loadIgnoreFile(ignoreFile')
    /\ cacheData' =
          setCachedScore(
              setCachedScore(cacheData, "python", packageName,
                             IgnoredScore(packageName), now),
              "javascript", packageName, IgnoredScore(packageName), now)

\* ScoringEngine.calculateScore: the calls of fetchGitHubStats one pass makes;
\* none before the returns for an ignored, cached or standard-library name.
PyGitHubLookups(name, info, t, ignored, cch) ==
    IF \/ ScoringEngine_isIgnoredPackage(name, ignored)
       \/ ScoringEngine_getCachedScore(cch, "python", name, CacheTTLSeconds, t)
       \/ name \in PYTHON_STDLIB
    THEN 0
    ELSE IF info.githubRepo THEN 1 ELSE 0

\* JavaScriptScoringEngine.calculateScore: the calls of fetchGitHubStats one
\* pass makes: one for the statistics, one more for activeGitHub.
JsGitHubLookups(name, info, t, ignored, cd) ==
    IF \/ isIgnoredPackage(name, ignored)
       \/ getCachedScore(cd, "javascript", name, CacheTTLSeconds, t)
       \/ name \in NODE_BUILTINS
    THEN 0
    ELSE (IF info.githubRepo THEN 1 ELSE 0) + (IF info.githubRepo THEN 1 ELSE 0)

\* A call of calculateScore on the long-lived engines.
CalculateScore(eco, name, info) ==
    /\ ops < MaxOps
    /\ ops' = ops + 1
    /\ LET r == IF eco = "python"
                THEN PyCalculateScore(name, info, now, ignoredPackages, cache)
                ELSE JsCalculateScore(name, info, now, ignoredPackages, cacheData)
       IN  /\ lastScore' =
                 [called |-> TRUE, ecosystem |-> eco, name |-> name, info |-> info,
                  result |-> r.result,
                  inRegistry |-> name \in DOMAIN ignoredPackages,
                  cached |-> IF eco = "python"
                             THEN ScoringEngine_getCachedScore(cache, "python", name,
                                                               CacheTTLSeconds, now)
                             ELSE getCachedScore(cacheData, "javascript", name,
                                                 CacheTTLSeconds, now),
                  by |-> "engine", fetched |-> FALSE,
                  lookups |-> IF eco = "python"
                              THEN PyGitHubLookups(name, info, now, ignoredPackages, cache)
                              ELSE JsGitHubLookups(name, info, now, ignoredPackages,
                                                   cacheData)]
           /\ cache' = IF eco = "python" THEN r.cache ELSE cache
           /\ cacheData' = IF eco = "python" THEN cacheData ELSE r.cacheData
    /\ UNCHANGED <<ignoreFile, ignoredPackages, now, termVars>>

\* What the editor's lookup of a package does: retryWithBackoff gives up and
\* the catch substitutes a record with exists = false, or metadata arrives.
EditorOutcomes == {Threw} \cup {[threw |-> FALSE, info |-> i] : i \in Infos}

\* validateAndDecorate for one package of a document: the persistent cache is
\* asked first; on a miss the registry is asked and an engine made for this
\* validation scores the answer.  The result shown, cacheData afterwards and
\* whether the registry was asked.
validateAndDecorate(language, name, outcome, ignored, cd, t) ==
    IF getCachedScore(cd, language, name, CacheTTLSeconds, t)
    THEN [result |-> cd[<<language, name>>].score, cacheData |-> cd, fetched |-> FALSE]
    ELSE IF language = "python"
    THEN [result |-> PyCalculateScore(name, outcome.info, t, ignored, EmptyMap).result,
          cacheData |-> cd, fetched |-> TRUE]
    ELSE LET r == JsCalculateScore(name, outcome.info, t, ignored, cd)
         IN  [result |-> r.result, cacheData |-> r.cacheData, fetched |-> TRUE]

\* A document that names the package is validated in the editor.
ValidateAndDecorate(language, name, outcome) ==
    /\ ops < MaxOps
    /\ ops' = ops + 1
    /\ LET v == validateAndDecorate(language, name, outcome, ignoredPackages,
                                    cacheData, now)
       IN  /\ lastScore' =
                 [called |-> TRUE, ecosystem |-> language, name |-> name,
                  info |-> outcome.info, result |-> v.result,
                  inRegistry |-> name \in DOMAIN ignoredPackages,
                  cached |-> ~v.fetched,
                  by |-> "editor", fetched |-> v.fetched,
                  lookups |-> IF ~v.fetched THEN 0
                              ELSE IF language = "python"
                              THEN PyGitHubLookups(name, outcome.info, now,
                                                   ignoredPackages, EmptyMap)
                              ELSE JsGitHubLookups(name, outcome.info, now,
                                                   ignoredPackages, cacheData)]
           /\ cacheData' = v.cacheData
    /\ UNCHANGED <<ignoreFile, ignoredPackages, cache, now, termVars>>

\* pkgguard.ignorePackage(name), the note typed into the input box; the append
\* to the ignore file may throw.
IgnorePackage(packageName, note, writeOk) ==
    /\ ops < MaxOps
    /\ ops' = ops + 1
    /\ IF writeOk THEN IgnoredState(packageName, note)
       ELSE UNCHANGED <<ignoreFile, ignoredPackages, cacheData>>
    /\ UNCHANGED <<cache, now, lastScore, termVars>>

\* pkgguard.unignorePackage: the effect of a run on the module state.
UnignoredState(packageName) ==
    IF ignoreFile = <<>>
    THEN UNCHANGED <<ignoreFile, ignoredPackages, cacheData>>
    ELSE /\ ignoreFile' =
              SelectSeq(ignoreFile, LAMBDA line : ~StartsWith(line, packageName))
         /\ ignoredPackages' = loadIgnoreFile(ignoreFile')
         /\ cacheData' = removeCachedScore(
                             removeCachedScore(cacheData, "python", packageName),
                             "javascript", packageName)

\* pkgguard.unignorePackage(name)
UnignorePackage(packageName) ==
    /\ ops < MaxOps
    /\ ops' = ops + 1
    /\ UnignoredState(packageName)
    /\ UNCHANGED <<cache, now, lastScore, termVars>>

\* pkg-guard.clearCache
ClearCache ==
    /\ ops < MaxOps
    /\ ops' = ops + 1
    /\ cacheData # EmptyMap
    /\ cacheData' = EmptyMap
    /\ UNCHANGED <<ignoreFile, ignoredPackages, cache, now, lastScore, termVars>>

\* Time passes.
Tick ==
    /\ now < Epoch + MaxTicks
    /\ now' = now + 1
    /\ UNCHANGED <<ignoreFile, ignoredPackages, cacheData, cache, lastScore, ops, termVars>>

---------------------------------------------------------------------------
\* The terminals: SimplePkgGuardTerminal (simple-terminal.ts),
\* SmartBlockingTerminal and BlockingPkgGuardTerminal (blocking-terminal.ts).
\* BlockingPkgGuardTerminal names its request awaitingApproval and has no
\* prompt flag; the request is held in pendingSecurityCheck here as well.
\* UnifiedPkgGuardTerminal (types.ts) has the handlers of SmartBlockingTerminal
\* without the final else, but its handleInput never starts a check.

Variants == {"simple", "smart", "blocking"}

Configs(v) ==
    CASE v = "simple" ->
           {[DefaultConfig EXCEPT !.securityMode = m] :
               m \in {"interactive", "monitor", "block", "disabled"}}
      [] v = "smart" ->
           {[DefaultConfig EXCEPT !.blockingMode = m] :
               m \in {"interactive", "strict", "warn", "disabled"}}
      [] v = "blocking" ->
           {[DefaultConfig EXCEPT !.preventRiskyInstalls = b] : b \in BOOLEAN}

Commands == {"pip install evil flask", "npm install evil", "ls"}

\* The words of a command line, each word cut into the pieces that
\* cleanPackageName can tell apart: a name, the separators ==, >=, <=, [ and
\* @, other pin operators, version text, and a leading "-" for a flag.
Words(command) ==
    CASE command = "pip install evil flask" ->
           <<<<"pip">>, <<"install">>, <<"evil">>, <<"flask">>>>
      [] command = "npm install evil" -> <<<<"npm">>, <<"install">>, <<"evil">>>>
      [] command = "ls" -> <<<<"ls">>>>
      [] OTHER -> <<>>

\* pythonPatterns followed by jsPatterns: the words of each pattern before
\* its capture group, and the ecosystem it gives.
allPatterns ==
    <<[pattern |-> <<<<"pip">>, <<"install">>>>, ecosystem |-> "python"],
      [pattern |-> <<<<"pip3">>, <<"install">>>>, ecosystem |-> "python"],
      [pattern |-> <<<<"python">>, <<"-", "m">>, <<"pip">>, <<"install">>>>,
       ecosystem |-> "python"],
      [pattern |-> <<<<"poetry">>, <<"add">>>>, ecosystem |-> "python"],
      [pattern |-> <<<<"pipenv">>, <<"install">>>>, ecosystem |-> "python"],
      [pattern |-> <<<<"npm">>, <<"install">>>>, ecosystem |-> "javascript"],
      [pattern |-> <<<<"npm">>, <<"i">>>>, ecosystem |-> "javascript"],
      [pattern |-> <<<<"yarn">>, <<"add">>>>, ecosystem |-> "javascript"],
      [pattern |-> <<<<"pnpm">>, <<"add">>>>, ecosystem |-> "javascript"],
      [pattern |-> <<<<"bun">>, <<"add">>>>, ecosystem |-> "javascript"]>>

\* Where an unanchored pattern /w1\s+w2\s+(.+)/ can match: its words stand
\* at position i and at least one more word follows.
MatchPositions(words, pattern) ==
    {i \in 1..Len(words) :
        /\ i + Len(pattern) <= Len(words)
        /\ SubSeq(words, i, i + Len(pattern) - 1) = pattern}

\* installPatterns.some(pattern => pattern.test(command)) on the words.
MatchesInstall(words) ==
    \E k \in DOMAIN allPatterns : MatchPositions(words, allPatterns[k].pattern) # {}

\* installPatterns.some(pattern => pattern.test(command))
IsInstallCommand(command) == MatchesInstall(Words(command))

RECURSIVE Join(_)
Join(pieces) == IF pieces = <<>> THEN "" ELSE pieces[1] \o Join(Tail(pieces))

\* The strings cleanPackageName splits at.
Separators == {"==", ">=", "<=", "[", "@"}

\* cleanPackageName: what stands before the first ==, >=, <=, [ or @.
cleanPackageName(spec) ==
    LET cut == {j \in DOMAIN spec : spec[j] \in Separators}
        n == IF cut = {} THEN Len(spec)
             ELSE (CHOOSE j \in cut : \A k \in cut : j <= k) - 1
    IN  Join(SubSeq(spec, 1, n))

\* The body of the loop over allPatterns for one pattern: command.match
\* takes the leftmost match, the capture is split into words, and a word is
\* pushed unless its clean name is empty or starts with "-".
PatternPackages(words, p) ==
    LET at == MatchPositions(words, p.pattern)
    IN  IF at = {} THEN <<>>
        ELSE LET i == CHOOSE x \in at : \A y \in at : x <= y
                 packageSpecs == SubSeq(words, i + Len(p.pattern), Len(words))
                 kept == SelectSeq(packageSpecs,
                                   LAMBDA w : cleanPackageName(w) # "" /\ w[1] # "-")
             IN  [j \in DOMAIN kept |->
                     [name |-> cleanPackageName(kept[j]), ecosystem |-> p.ecosystem]]

\* The loop over allPatterns: every pattern is tried, none ends the loop.
RECURSIVE ExtractUpTo(_, _)
ExtractUpTo(words, k) ==
    IF k = 0 THEN <<>>
    ELSE ExtractUpTo(words, k - 1) \o PatternPackages(words, allPatterns[k])

\* extractPackageInfo on the words of the command.
extractPackages(words) == ExtractUpTo(words, Len(allPatterns))

extractPackageInfo(command) == extractPackages(Words(command))

\* Keys: Enter is "\r", Ctrl+C is written "^C".
Enter == "\r"
CtrlC == "^C"
Keys == {"y", "Y", "n", Enter, "d", "i", CtrlC, "x"}
keyToLowerCase(data) == IF data = "Y" THEN "y" ELSE data

\* What adapter.meta(name) does: it throws, or returns registry metadata.
MetaOutcomes == {Threw} \cup {[threw |-> FALSE, info |-> i] : i \in {NotFound, Popular}}

\* What pkgguard.ignorePackage does when run from the terminal.
IgnoreOutcomes ==
    {[ok |-> FALSE, note |-> ""]} \cup {[ok |-> TRUE, note |-> n] : n \in Notes}

NoRequest == [set |-> FALSE]

\* A shouldCheckSecurity without the early return for the disabled mode.
shouldCheckSecurity_ModeBlind(v, c, command) ==
    CASE v = "simple" -> IsInstallCommand(command)
      [] v = "smart" -> IsInstallCommand(command)
      [] OTHER -> TRUE

\* shouldCheckSecurity: false at once when the mode is disabled, otherwise
\* whether the command matches an install pattern.  BlockingPkgGuardTerminal
\* has no such test and no mode.
shouldCheckSecurity(v, c, command) ==
    CASE v = "simple" -> c.securityMode # "disabled" /\ IsInstallCommand(command)
      [] v = "smart" -> c.blockingMode # "disabled" /\ IsInstallCommand(command)
      [] OTHER -> TRUE

\* The configuration value the check reads once risky packages are found.
ModeRead(v, c) ==
    CASE v = "simple" -> c.securityMode
      [] v = "smart" -> c.blockingMode
      [] OTHER -> IF c.preventRiskyInstalls THEN "true" ELSE "false"

\* A performSecurityCheck whose block mode falls through to the prompt.
SimpleDecision_BlockAsks(securityMode) ==
    IF securityMode = "monitor" THEN "allow" ELSE "ask"

\* SimplePkgGuardTerminal.performSecurityCheck, risky packages found.
SimpleDecision(securityMode) ==
    IF securityMode = "block" THEN "block"
    ELSE IF securityMode = "monitor" THEN "allow"
    ELSE "ask"

\* SmartBlockingTerminal.performSecurityCheck, risky packages found.
SmartDecision(blockingMode) ==
    IF blockingMode = "strict" THEN "block"
    ELSE IF blockingMode = "warn" THEN "allow"
    ELSE "ask"

\* BlockingPkgGuardTerminal.analyzeAndCheckBlocking, risky packages found.
BlockingDecision(preventRiskyInstalls) ==
    IF preventRiskyInstalls THEN "block" ELSE "ask"

Decision(v, c) ==
    CASE v = "simple" -> SimpleDecision(c.securityMode)
      [] v = "smart" -> SmartDecision(c.blockingMode)
      [] OTHER -> BlockingDecision(c.preventRiskyInstalls)

\* A prompt handler whose bare Enter approves.
SimpleAnswer_EnterApproves(char) ==
    IF char = "y" \/ char = Enter THEN "approve"
    ELSE IF char = "n" THEN "deny"
    ELSE IF char = "d" THEN "details"
    ELSE "none"

\* SimplePkgGuardTerminal.handleSecurityPromptInput: the branch taken.
SimpleAnswer(char) ==
    IF char = "y" THEN "approve"
    ELSE IF char = "n" \/ char = Enter THEN "deny"
    ELSE IF char = "d" THEN "details"
    ELSE "none"

\* SmartBlockingTerminal.handleSecurityPromptInput: the branch taken.
SmartAnswer(char) ==
    IF char = "y" THEN "approve"
    ELSE IF char = "n" \/ char = Enter THEN "deny"
    ELSE IF char = "d" THEN "details"
    ELSE IF char = "i" THEN "ignore"
    ELSE IF char = CtrlC THEN "deny"
    ELSE "invalid"

\* BlockingPkgGuardTerminal.handleApprovalInput: the branch taken.
BlockingAnswer(char) ==
    IF char = "y" \/ char = Enter
    THEN (IF char = "y" THEN "approve" ELSE "deny")
    ELSE IF char = "n" \/ char = CtrlC THEN "deny"
    ELSE IF char = "d" THEN "details"
    ELSE IF char = "i" THEN "ignore"
    ELSE "invalid"

ApprovalAnswer(v, char) ==
    CASE v = "simple" -> SimpleAnswer(char)
      [] v = "smart" -> SmartAnswer(char)
      [] OTHER -> BlockingAnswer(char)

\* Input goes to the prompt handler.
InPromptState ==
    IF variant = "blocking" THEN pendingSecurityCheck.set
    ELSE isInSecurityPrompt /\ pendingSecurityCheck.set

\* results.filter(r => r.score.level === 'low')
highRiskPackages(results) ==
    {results[j].package : j \in {x \in DOMAIN results : results[x].level = "low"}}

\* getBlockedPackages, the check of a manifest install: the names blocked and
\* the packages for which adapter.meta and calculateScore were called.  levels
\* gives, per package, the level scored or "threw".
getBlockedPackages(securityMode, packages, levels) ==
    IF securityMode = "disabled" THEN [blocked |-> <<>>, scored |-> {}]
    ELSE [blocked |->
              SelectSeq([j \in DOMAIN packages |-> packages[j].name],
                        LAMBDA n : /\ \E j \in DOMAIN packages :
                                        packages[j].name = n /\ levels[j] = "low"
                                   /\ securityMode \in {"block", "interactive"}),
          scored |-> {packages[j].name : j \in DOMAIN packages}]

\* new adapter, new engine, meta, calculateScore for one package: whether it
\* threw, the level scored, and cacheData afterwards.
AnalyzeOne(pkg, outcome) ==
    IF outcome.threw THEN [threw |-> TRUE, level |-> "", cacheData |-> cacheData]
    ELSE IF pkg.ecosystem = "python"
    THEN [threw |-> FALSE,
          level |-> PyCalculateScore(pkg.name, outcome.info, now, ignoredPackages,
                                     EmptyMap).result.level,
          cacheData |-> cacheData]
    ELSE LET r == JsCalculateScore(pkg.name, outcome.info, now, ignoredPackages, cacheData)
         IN  [threw |-> FALSE, level |-> r.result.level, cacheData |-> r.cacheData]

NewCheck(command) ==
    [command |-> command, packages |-> extractPackageInfo(command), k |-> 1,
     results |-> <<>>, failed |-> {}, state |-> "analyzing", proceed |-> FALSE,
     via |-> "", modeRead |-> "", prompted |-> FALSE, cancelled |-> FALSE,
     explained |-> {}]

\* What is left of a check once its promise has settled.
Settled ==
    [command |-> "", packages |-> <<>>, k |-> 0, results |-> <<>>, failed |-> {},
     state |-> "done", proceed |-> FALSE, via |-> "", modeRead |-> "",
     prompted |-> FALSE, cancelled |-> FALSE,
     explained |-> {}]

NoneFinished == [set |-> FALSE]

\* The line the shell runs when the command goes through.
ShellRuns(command) == IF variant = "smart" THEN shellLine ELSE <<command>>

\* The check's promise settles and the Enter handler that awaited it runs on:
\* a refused command is reported, an allowed one is run; the input is cleared.
Finish(all, i, c, proceed, via, writes) ==
    /\ checks' = [all EXCEPT ![i] = Settled]
    /\ finished' = [set |-> TRUE, id |-> i,
                    check |-> [c EXCEPT !.state = "done", !.proceed = proceed,
                                        !.via = via],
                    ran |-> IF proceed THEN ShellRuns(c.command) ELSE <<>>]
    /\ shellLine' = IF proceed THEN <<>> ELSE shellLine
    /\ currentInput' = ""
    /\ lastWrite' = writes \o (IF proceed \/ variant = "smart" THEN <<>>
                               ELSE <<"command blocked">>)

\* Printable input on an empty line: a whole command is typed.  The smart
\* terminal passes the characters on to its shell as they come.
Type(command) ==
    /\ ~InPromptState
    /\ currentInput = ""
    /\ Len(checks) < MaxChecks
    /\ currentInput' = command
    /\ shellLine' = IF variant = "smart" THEN Append(shellLine, command) ELSE shellLine
    /\ lastWrite' = <<>>
    /\ lastInput' = ""
    /\ finished' = NoneFinished
    /\ UNCHANGED <<scoreVars, variant, config, checks, pendingSecurityCheck,
                   isInSecurityPrompt, handlers>>

\* Ctrl+C outside the prompt with input on the line: the line is cleared.
\* Nothing is said to a check that is under way; the field cancelled of a
\* check only records that the key arrived while it was analysing.
Interrupt ==
    /\ ~InPromptState
    /\ currentInput # ""
    /\ currentInput' = ""
    /\ shellLine' = <<>>
    /\ lastWrite' = IF variant = "smart" THEN <<>> ELSE <<"^C">>
    /\ lastInput' = ""
    /\ finished' = NoneFinished
    /\ checks' = [i \in DOMAIN checks |->
                     IF checks[i].state = "analyzing"
                     THEN [checks[i] EXCEPT !.cancelled = TRUE] ELSE checks[i]]
    /\ UNCHANGED <<scoreVars, variant, config, pendingSecurityCheck,
                   isInSecurityPrompt, handlers>>

\* Enter outside the prompt: handleInput up to its first await.  A command
\* that needs no check runs at once; otherwise the check starts and the
\* handler is suspended with the input line still in place.
PressEnter ==
    /\ ~InPromptState
    /\ currentInput # ""
    /\ Len(checks) < MaxChecks
    /\ LET command == currentInput
           c == NewCheck(command)
       IN  IF shouldCheckSecurity(variant, config, command) /\ c.packages # <<>>
           THEN /\ checks' = Append(checks, c)
                /\ lastWrite' = <<"analyzing">>
                /\ finished' = NoneFinished
                /\ UNCHANGED <<currentInput, shellLine>>
           ELSE Finish(Append(checks, c), Len(checks) + 1, c, TRUE, "unchecked", <<>>)
    /\ lastInput' = ""
    /\ UNCHANGED <<scoreVars, variant, config, pendingSecurityCheck,
                   isInSecurityPrompt, handlers>>

\* One turn of the analysis loop of check i: meta and calculateScore for the
\* next package.  After the last package the decision is taken; a decision by
\* policy settles the check, otherwise the approval request is created.
AnalyzePackage(i, outcome) ==
    /\ checks[i].state = "analyzing"
    /\ LET c == checks[i]
           pkg == c.packages[c.k]
           r == AnalyzeOne(pkg, outcome)
           c2 == [c EXCEPT !.k = c.k + 1,
                           !.results = IF r.threw THEN c.results
                                       ELSE Append(c.results,
                                                   [package |-> pkg.name, level |-> r.level]),
                           !.failed = IF r.threw THEN c.failed \cup {pkg.name}
                                      ELSE c.failed]
           risky == highRiskPackages(c2.results)
           c3 == [c2 EXCEPT !.modeRead = ModeRead(variant, config)]
           decision == Decision(variant, config)
       IN  /\ cacheData' = r.cacheData
           /\ IF c.k < Len(c.packages)
              THEN /\ checks' = [checks EXCEPT ![i] = c2]
                   /\ lastWrite' = <<"result">>
                   /\ finished' = NoneFinished
                   /\ UNCHANGED <<currentInput, shellLine,
                                  pendingSecurityCheck, isInSecurityPrompt>>
              ELSE IF risky = {}
              THEN /\ Finish(checks, i, c2, TRUE, "passed", <<"all passed">>)
                   /\ UNCHANGED <<pendingSecurityCheck, isInSecurityPrompt>>
              ELSE IF decision = "block"
              THEN /\ Finish(checks, i, c3, FALSE, "policy-block", <<"blocked by policy">>)
                   /\ UNCHANGED <<pendingSecurityCheck, isInSecurityPrompt>>
              ELSE IF decision = "allow"
              THEN /\ Finish(checks, i, c3, TRUE, "policy-allow", <<"warning">>)
                   /\ UNCHANGED <<pendingSecurityCheck, isInSecurityPrompt>>
              ELSE /\ checks' = [checks EXCEPT ![i] =
                                    [c3 EXCEPT !.state = "awaiting", !.prompted = TRUE]]
                   /\ pendingSecurityCheck' =
                         [set |-> TRUE, command |-> c.command,
                          packages |-> c.packages, resolve |-> i]
                   /\ isInSecurityPrompt' = (variant # "blocking")
                   /\ lastWrite' = <<"warning", "options">>
                   /\ finished' = NoneFinished
                   /\ UNCHANGED <<currentInput, shellLine>>
    /\ lastInput' = ""
    /\ UNCHANGED <<ignoreFile, ignoredPackages, cache, now, lastScore, ops,
                   variant, config, handlers>>

\* this.pendingSecurityCheck.resolve(proceed); the request is dropped.
Resolve(proceed, via, writes) ==
    /\ Finish(checks, pendingSecurityCheck.resolve,
              checks[pendingSecurityCheck.resolve], proceed, via, writes)
    /\ pendingSecurityCheck' = NoRequest
    /\ isInSecurityPrompt' = FALSE

NewHandler(kind) ==
    [kind |-> kind, packages |-> pendingSecurityCheck.packages, k |-> 1]

\* Input while the approval prompt is up: handleSecurityPromptInput /
\* handleApprovalInput up to its first await.
PromptInput(data) ==
    /\ InPromptState
    /\ LET char == keyToLowerCase(data)
           answer == ApprovalAnswer(variant, char)
       IN  /\ answer \in {"details", "ignore"} => Len(handlers) < MaxHandlers
           /\ IF answer = "approve"
              THEN /\ Resolve(TRUE, char, <<"proceeding">>)
                   /\ UNCHANGED handlers
              ELSE IF answer = "deny"
              THEN /\ Resolve(FALSE, char, <<"cancelled">>)
                   /\ UNCHANGED handlers
              ELSE /\ handlers' = IF answer = "details" THEN Append(handlers, NewHandler("d"))
                                  ELSE IF answer = "ignore" THEN Append(handlers, NewHandler("i"))
                                  ELSE handlers
                   /\ lastWrite' = IF answer = "details" THEN <<"details">>
                                   ELSE IF answer = "ignore" THEN <<"adding">>
                                   ELSE IF answer = "invalid" THEN <<"invalid", "options">>
                                   ELSE <<>>
                   /\ finished' = NoneFinished
                   /\ UNCHANGED <<checks, shellLine, currentInput,
                                  pendingSecurityCheck, isInSecurityPrompt>>
    /\ lastInput' = data
    /\ UNCHANGED <<scoreVars, variant, config>>

RemoveAt(seq, j) == SubSeq(seq, 1, j - 1) \o SubSeq(seq, j + 1, Len(seq))

\* showPackageDetails, one turn of its loop: the score and the risk factors
\* of the next package are written, or an error line when the lookup throws;
\* after the last package the handler shows the options again and ends.
\* The field explained of the check whose request is pending collects its
\* low-scoring packages whose risk factors have been written.
DetailsStep(j, outcome) ==
    /\ handlers[j].kind = "d"
    /\ LET h == handlers[j]
           r == AnalyzeOne(h.packages[h.k], outcome)
           pkg == h.packages[h.k]
           id == pendingSecurityCheck.resolve
       IN  /\ cacheData' = r.cacheData
           /\ handlers' = IF h.k < Len(h.packages)
                          THEN [handlers EXCEPT ![j].k = h.k + 1]
                          ELSE RemoveAt(handlers, j)
           /\ lastWrite' = IF h.k < Len(h.packages) THEN <<"detail">>
                           ELSE <<"detail", "options">>
           /\ checks' = IF /\ ~r.threw
                           /\ pendingSecurityCheck.set
                           /\ pkg.name \in highRiskPackages(checks[id].results)
                        THEN [checks EXCEPT ![id].explained = @ \cup {pkg.name}]
                        ELSE checks
    /\ lastInput' = ""
    /\ finished' = NoneFinished
    /\ UNCHANGED <<ignoreFile, ignoredPackages, cache, now, lastScore, ops,
                   variant, config, currentInput, pendingSecurityCheck,
                   isInSecurityPrompt, shellLine>>

\* ignorePackages, one turn of its loop: pkgguard.ignorePackage for the next
\* package, a failure caught and reported.  After the last package the
\* handler resolves the request that is pending by then with true; with none
\* pending the handler dies on the undefined request.
IgnoreStep(j, outcome) ==
    /\ handlers[j].kind = "i"
    /\ LET h == handlers[j]
       IN  /\ IF outcome.ok THEN IgnoredState(h.packages[h.k].name, outcome.note)
              ELSE UNCHANGED <<ignoreFile, ignoredPackages, cacheData>>
           /\ IF h.k < Len(h.packages)
              THEN /\ handlers' = [handlers EXCEPT ![j].k = h.k + 1]
                   /\ lastWrite' = <<IF outcome.ok THEN "added" ELSE "failed to ignore">>
                   /\ finished' = NoneFinished
                   /\ UNCHANGED <<checks, shellLine, currentInput,
                                  pendingSecurityCheck, isInSecurityPrompt>>
              ELSE /\ handlers' = RemoveAt(handlers, j)
                   /\ IF pendingSecurityCheck.set
                      THEN Resolve(TRUE, "i", <<"packages ignored">>)
                      ELSE /\ lastWrite' = <<"packages ignored">>
                           /\ finished' = NoneFinished
                           /\ UNCHANGED <<checks, shellLine, currentInput,
                                          pendingSecurityCheck, isInSecurityPrompt>>
    /\ lastInput' = ""
    /\ UNCHANGED <<cache, now, lastScore, ops, variant, config>>

InitTerm == ScoringIdle /\ \E v \in Variants : \E c \in Configs(v) : TermIdle(v, c)

NextTerm ==
    \/ \E command \in Commands : Type(command)
    \/ Interrupt
    \/ PressEnter
    \/ \E i \in DOMAIN checks : \E outcome \in MetaOutcomes : AnalyzePackage(i, outcome)
    \/ \E data \in Keys : PromptInput(data)
    \/ \E j \in DOMAIN handlers : \E outcome \in MetaOutcomes : DetailsStep(j, outcome)
    \/ \E j \in DOMAIN handlers : \E outcome \in IgnoreOutcomes : IgnoreStep(j, outcome)

SpecTerm == InitTerm /\ [][NextTerm]_vars

InitScore == ScoringIdle /\ TermIdle("simple", DefaultConfig)

NextScore ==
    \/ \E eco \in Ecosystems : \E name \in NamesOf(eco) : \E info \in Infos :
          CalculateScore(eco, name, info)
    \/ \E eco \in Ecosystems : \E name \in NamesOf(eco) : \E outcome \in EditorOutcomes :
          ValidateAndDecorate(eco, name, outcome)
    \/ \E name \in Names : \E note \in Notes : \E writeOk \in BOOLEAN :
          IgnorePackage(name, note, writeOk)
    \/ \E name \in Names : UnignorePackage(name)
    \/ ClearCache
    \/ Tick

SpecScore == InitScore /\ [][NextScore]_vars

---------------------------------------------------------------------------
\* extractPackageInfo on its own: a line of words stands on the input line and
\* the packages extracted from it are recorded as the line's check.

MaxSpecs == 2

\* Package specs one may type: bare, pinned with ==, >= and ~=, with an
\* extra, with a version tag, a scoped npm name; and a flag.
PackageSpecs ==
    {<<"flask">>, <<"flask", "==", "2.0">>, <<"evil", ">=", "1">>,
     <<"flsk", "~=", "1">>, <<"evil", "[", "extra", "]">>, <<"react", "@", "18">>,
     <<"@", "types/node">>, <<"-", "U">>}

\* One to MaxSpecs different specs in a row.
SpecLists ==
    {l \in UNION {[1..n -> PackageSpecs] : n \in 1..MaxSpecs} :
        \A i, j \in DOMAIN l : i # j => l[i] # l[j]}

TypedLines ==
    {allPatterns[k].pattern \o l : k \in DOMAIN allPatterns, l \in SpecLists}
    \cup {Words("ls")}

InitExtract ==
    /\ ScoringIdle
    /\ variant = "simple"
    /\ config = DefaultConfig
    /\ currentInput \in TypedLines
    /\ checks = <<>>
    /\ pendingSecurityCheck = NoRequest
    /\ isInSecurityPrompt = FALSE
    /\ handlers = <<>>
    /\ finished = NoneFinished
    /\ shellLine = <<>>
    /\ lastWrite = <<>>
    /\ lastInput = ""

\* processCommand up to the call of performSecurityCheck: the packages of
\* the line are extracted when the line is an install command.
Extract ==
    /\ checks = <<>>
    /\ checks' = <<[command |-> currentInput,
                    checked |-> MatchesInstall(currentInput),
                    packages |-> IF MatchesInstall(currentInput)
                                 THEN extractPackages(currentInput) ELSE <<>>]>>
    /\ UNCHANGED <<scoreVars, variant, config, currentInput, pendingSecurityCheck,
                   isInSecurityPrompt, handlers, finished, shellLine, lastWrite,
                   lastInput>>

\* processCommand past the check that is not made: the line is no install
\* command, or no package was extracted from it (packages.length > 0 fails),
\* and executeInVSCodeTerminal runs it with nothing scored.
ExecuteUnchecked ==
    /\ checks # <<>>
    /\ ~checks[1].checked \/ checks[1].packages = <<>>
    /\ shellLine = <<>>
    /\ shellLine' = <<checks[1].command>>
    /\ UNCHANGED <<scoreVars, variant, config, currentInput, checks,
                   pendingSecurityCheck, isInSecurityPrompt, handlers, finished,
                   lastWrite, lastInput>>

NextExtract == Extract \/ ExecuteUnchecked

SpecExtract == InitExtract /\ [][NextExtract]_vars

---------------------------------------------------------------------------
\* TerminalPackageMonitor (blocking-terminal.ts): the shell-integration
\* monitor and its own extractor.  A command line is a sequence of words as
\* above; a spec handed to cleanPackageName directly may also hold blanks
\* (" ") and is empty for the empty string.

\* A pattern that matches as soon as its first word stands at position i.
PatternAt_FirstWord(words, pattern, i) == words[i] = pattern[1]

\* The words of the pattern stand at position i of the line.
PatternAt(words, pattern, i) ==
    /\ i + Len(pattern) - 1 <= Len(words)
    /\ SubSeq(words, i, i + Len(pattern) - 1) = pattern

\* pipPatterns followed by npmPatterns; each captures the one word that
\* follows its words.
monitorPatterns ==
    <<[pattern |-> <<<<"pip">>, <<"install">>>>, ecosystem |-> "python"],
      [pattern |-> <<<<"pip3">>, <<"install">>>>, ecosystem |-> "python"],
      [pattern |-> <<<<"python">>, <<"-", "m">>, <<"pip">>, <<"install">>>>,
       ecosystem |-> "python"],
      [pattern |-> <<<<"poetry">>, <<"add">>>>, ecosystem |-> "python"],
      [pattern |-> <<<<"pipenv">>, <<"install">>>>, ecosystem |-> "python"],
      [pattern |-> <<<<"conda">>, <<"install">>>>, ecosystem |-> "python"],
      [pattern |-> <<<<"npm">>, <<"install">>>>, ecosystem |-> "javascript"],
      [pattern |-> <<<<"npm">>, <<"i">>>>, ecosystem |-> "javascript"],
      [pattern |-> <<<<"yarn">>, <<"add">>>>, ecosystem |-> "javascript"],
      [pattern |-> <<<<"pnpm">>, <<"add">>>>, ecosystem |-> "javascript"],
      [pattern |-> <<<<"bun">>, <<"add">>>>, ecosystem |-> "javascript"]>>

Dashes == {"-", "--"}
Blanks == {" "}

\* The strings TerminalPackageMonitor.cleanPackageName splits at.
MonitorSeparators == {"==", ">=", "<=", "~=", "[", "@"}

\* .replace(/^-+/, '')
RECURSIVE DropDashes(_)
DropDashes(pieces) ==
    IF pieces # <<>> /\ pieces[1] \in Dashes THEN DropDashes(Tail(pieces)) ELSE pieces

\* .trim()
RECURSIVE TrimPieces(_)
TrimPieces(pieces) ==
    IF pieces # <<>> /\ pieces[1] \in Blanks THEN TrimPieces(Tail(pieces))
    ELSE IF pieces # <<>> /\ Last(pieces) \in Blanks THEN TrimPieces(Front(pieces))
    ELSE pieces

Null == [null |-> TRUE]

\* TerminalPackageMonitor.cleanPackageName: what stands before the first
\* separator, without leading dashes, trimmed; null when that is empty,
\* starts with "-" or holds a blank.
TerminalPackageMonitor_cleanPackageName(packageSpec) ==
    LET cut == {j \in DOMAIN packageSpec : packageSpec[j] \in MonitorSeparators}
        n == IF cut = {} THEN Len(packageSpec)
             ELSE (CHOOSE j \in cut : \A k \in cut : j <= k) - 1
        cleaned == TrimPieces(DropDashes(SubSeq(packageSpec, 1, n)))
    IN  IF \/ cleaned = <<>>
           \/ cleaned[1] \in Dashes
           \/ \E j \in DOMAIN cleaned : cleaned[j] \in Blanks
        THEN Null
        ELSE [null |-> FALSE, name |-> Join(cleaned)]

\* while ((match = pattern.exec(command)) !== null): the specs one global
\* pattern captures, scanning on from position i.
RECURSIVE Captures(_, _, _)
Captures(words, pattern, i) ==
    IF i + Len(pattern) > Len(words) THEN <<>>
    ELSE IF PatternAt(words, pattern, i)
    THEN <<words[i + Len(pattern)]>>
         \o Captures(words, pattern, i + Len(pattern) + 1)
    ELSE Captures(words, pattern, i + 1)

\* The packages one pattern contributes.
MonitorPatternPackages(words, p) ==
    LET cleaned == [j \in DOMAIN Captures(words, p.pattern, 1) |->
                       TerminalPackageMonitor_cleanPackageName(
                           Captures(words, p.pattern, 1)[j])]
        kept == SelectSeq(cleaned, LAMBDA c : ~c.null)
    IN  [j \in DOMAIN kept |-> [name |-> kept[j].name, ecosystem |-> p.ecosystem]]

RECURSIVE MonitorExtractUpTo(_, _)
MonitorExtractUpTo(words, k) ==
    IF k = 0 THEN <<>>
    ELSE MonitorExtractUpTo(words, k - 1)
         \o MonitorPatternPackages(words, monitorPatterns[k])

\* TerminalPackageMonitor.extractPackageNames
extractPackageNames(words) == MonitorExtractUpTo(words, Len(monitorPatterns))

\* Specs that stand as one word on a command line.
LineSpecs ==
    {<<"flask">>, <<"flask", "==", "2.0">>, <<"@", "types/node">>,
     <<"react", "@", "latest">>, <<"--", "upgrade">>}

\* Specs handed to cleanPackageName.
CleanSpecs ==
    LineSpecs
    \cup {<<"evil", ">=", "1">>, <<"evil", "[", "extra", "]">>, <<"flsk", "~=", "1">>,
          <<"@", "types/node", "@", "^18">>, <<"-", "U">>,
          <<"-", "r", " ", "requirements.txt">>, <<>>, <<" ">>,
          <<"--", "index-url", " ", "https://example.com">>}

LineSpecLists ==
    {l \in UNION {[1..n -> LineSpecs] : n \in 1..MaxSpecs} :
        \A i, j \in DOMAIN l : i # j => l[i] # l[j]}

\* Lines without an install verb: uninstall and remove commands, other
\* commands, the empty line.
NonInstallLines ==
    {<<<<"pip">>, <<"uninstall">>, <<"flask">>>>,
     <<<<"npm">>, <<"uninstall">>, <<"react">>>>,
     <<<<"npm">>, <<"remove">>, <<"react">>>>,
     <<<<"yarn">>, <<"remove">>, <<"react">>>>,
     <<<<"poetry">>, <<"remove">>, <<"flask">>>>,
     <<<<"npm">>, <<"run">>, <<"build">>>>,
     <<<<"python">>, <<"script.py">>>>,
     <<<<"ls">>, <<"-", "la">>>>,
     <<>>}

MonitorLines ==
    {monitorPatterns[k].pattern \o l : k \in DOMAIN monitorPatterns, l \in LineSpecLists}
    \cup NonInstallLines

\* A command line is about to be executed in a terminal.
InitMonitor ==
    /\ ScoringIdle
    /\ variant = "simple"
    /\ config = DefaultConfig
    /\ currentInput \in MonitorLines
    /\ checks = <<>>
    /\ pendingSecurityCheck = NoRequest
    /\ isInSecurityPrompt = FALSE
    /\ handlers = <<>>
    /\ finished = NoneFinished
    /\ shellLine = <<>>
    /\ lastWrite = <<>>
    /\ lastInput = ""

\* onShellExecutionStart up to the analysis: the packages of the command
\* line are extracted.
OnShellExecutionStart ==
    /\ checks = <<>>
    /\ checks' = <<[command |-> currentInput,
                    packages |-> extractPackageNames(currentInput)]>>
    /\ UNCHANGED <<scoreVars, variant, config, currentInput, pendingSecurityCheck,
                   isInSecurityPrompt, handlers, finished, shellLine, lastWrite,
                   lastInput>>

\* cleanPackageName applied to one spec; the spec and what was returned.
CleanPackageName(spec) ==
    /\ lastWrite' = <<[spec |-> spec,
                       result |-> TerminalPackageMonitor_cleanPackageName(spec)]>>
    /\ lastWrite' # lastWrite
    /\ UNCHANGED <<scoreVars, variant, config, currentInput, checks,
                   pendingSecurityCheck, isInSecurityPrompt, handlers, finished,
                   shellLine, lastInput>>

NextMonitor ==
    \/ OnShellExecutionStart
    \/ \E spec \in CleanSpecs : CleanPackageName(spec)

SpecMonitor == InitMonitor /\ [][NextMonitor]_vars

---------------------------------------------------------------------------
\* One analysis pass over the packages of a command (performSecurityCheck)
\* or of a document (validateAndDecorate).  checks holds the pass: the
\* packages as extracted, the indexes whose registry call has not been
\* answered, and the packages in the order their results were reported.

MaxPackages == 3

\* The packages extracted for a pass, in order.
PackageLists ==
    {l \in UNION {[1..n -> PyNames] : n \in 1..MaxPackages} :
        \A i, j \in DOMAIN l : i # j => l[i] # l[j]}

InitPass ==
    /\ ScoringIdle
    /\ variant = "simple"
    /\ config = DefaultConfig
    /\ currentInput = <<>>
    /\ checks = <<>>
    /\ pendingSecurityCheck = NoRequest
    /\ isInSecurityPrompt = FALSE
    /\ handlers = <<>>
    /\ finished = NoneFinished
    /\ shellLine = <<>>
    /\ lastWrite = <<>>
    /\ lastInput = ""

passUnchanged ==
    UNCHANGED <<scoreVars, variant, config, currentInput, pendingSecurityCheck,
                isInSecurityPrompt, handlers, finished, shellLine, lastWrite, lastInput>>

\* performSecurityCheck is entered with the packages of a command.
PerformSecurityCheckStart(packages) ==
    /\ checks = <<>>
    /\ checks' = <<[kind |-> "command", packages |-> packages,
                    pending |-> DOMAIN packages, reported |-> <<>>]>>
    /\ passUnchanged

\* for (const pkg of packages) { await meta; await calculateScore; fire }:
\* the loop awaits the answer for the next package and writes its line (the
\* score, or the error of a call that threw) before it turns to the one
\* after it.
PerformSecurityCheckNext ==
    /\ checks # <<>>
    /\ checks[1].kind = "command"
    /\ checks[1].pending # {}
    /\ LET i == CHOOSE j \in checks[1].pending : \A k \in checks[1].pending : j <= k
       IN  checks' = <<[checks[1] EXCEPT
                           !.pending = @ \ {i},
                           !.reported = Append(@, checks[1].packages[i])]>>
    /\ passUnchanged

\* validateAndDecorate up to await Promise.all: the packages whose score is
\* cached (hits) are handed to updateUIForPackage in the loop, for each
\* other package an async task is started.
ValidateDocument(packages, hits) ==
    /\ checks = <<>>
    /\ checks' = <<[kind |-> "document", packages |-> packages,
                    pending |-> DOMAIN packages \ hits,
                    reported |-> SelectSeq(packages,
                                           LAMBDA n : \E i \in hits : packages[i] = n)]>>
    /\ passUnchanged

\* The registry call of one async task is answered (or has failed for the
\* last time); the task scores the package and calls updateUIForPackage.
AsyncTaskCompletes(i) ==
    /\ checks # <<>>
    /\ checks[1].kind = "document"
    /\ i \in checks[1].pending
    /\ checks' = <<[checks[1] EXCEPT
                       !.pending = @ \ {i},
                       !.reported = Append(@, checks[1].packages[i])]>>
    /\ passUnchanged

NextPass ==
    \/ \E packages \in PackageLists : PerformSecurityCheckStart(packages)
    \/ PerformSecurityCheckNext
    \/ \E packages \in PackageLists : \E hits \in SUBSET DOMAIN packages :
          ValidateDocument(packages, hits)
    \/ \E i \in 1..MaxPackages : AsyncTaskCompletes(i)

SpecPass == InitPass /\ [][NextPass]_vars

---------------------------------------------------------------------------
\* Ignore and unignore commands issued while others are in flight.  handlers
\* holds the pkgguard.ignorePackage invocations suspended at the input box,
\* finished the operations that have run to their end, in that order.

MaxIssued == 3

Issued == Len(handlers) + Len(finished)

InitRegistry ==
    /\ ScoringIdle
    /\ variant = "simple"
    /\ config = DefaultConfig
    /\ currentInput = <<>>
    /\ checks = <<>>
    /\ pendingSecurityCheck = NoRequest
    /\ isInSecurityPrompt = FALSE
    /\ handlers = <<>>
    /\ finished = <<>>
    /\ shellLine = <<>>
    /\ lastWrite = <<>>
    /\ lastInput = ""

registryUnchanged ==
    UNCHANGED <<cache, now, lastScore, ops, variant, config, currentInput, checks,
                pendingSecurityCheck, isInSecurityPrompt, shellLine, lastWrite,
                lastInput>>

\* pkgguard.ignorePackage(name) up to await showInputBox; addToIgnoreList
\* issues one such command per package without awaiting the one before.
IssueIgnore(packageName) ==
    /\ Issued < MaxIssued
    /\ handlers' = Append(handlers, [packageName |-> packageName, issued |-> Issued + 1])
    /\ UNCHANGED <<ignoreFile, ignoredPackages, cacheData, finished>>
    /\ registryUnchanged

\* The input box of invocation j resolves with the note; the rest of the
\* handler has no await: append, loadIgnoreFile, setCachedScore.
ResumeIgnore(j, note) ==
    /\ j \in DOMAIN handlers
    /\ IgnoredState(handlers[j].packageName, note)
    /\ handlers' = SubSeq(handlers, 1, j - 1) \o SubSeq(handlers, j + 1, Len(handlers))
    /\ finished' = Append(finished, [op |-> "ignore",
                                     packageName |-> handlers[j].packageName,
                                     issued |-> handlers[j].issued])
    /\ registryUnchanged

\* pkgguard.unignorePackage(name): the handler has no await; read, filter,
\* write, loadIgnoreFile, removeCachedScore.
IssueUnignore(packageName) ==
    /\ Issued < MaxIssued
    /\ UnignoredState(packageName)
    /\ finished' = Append(finished, [op |-> "unignore", packageName |-> packageName,
                                     issued |-> Issued + 1])
    /\ UNCHANGED handlers
    /\ registryUnchanged

NextRegistry ==
    \/ \E packageName \in PyNames : IssueIgnore(packageName)
    \/ \E j \in 1..MaxIssued, note \in Notes : ResumeIgnore(j, note)
    \/ \E packageName \in PyNames : IssueUnignore(packageName)

SpecRegistry == InitRegistry /\ [][NextRegistry]_vars

---------------------------------------------------------------------------
\* Persisting with a disk that may refuse the write.  finished holds the
\* operation the last step ran, whether its write succeeded and whether the
\* operation threw to its caller.

InitDisk ==
    /\ ScoringIdle
    /\ variant = "simple"
    /\ config = DefaultConfig
    /\ currentInput = <<>>
    /\ checks = <<>>
    /\ pendingSecurityCheck = NoRequest
    /\ isInSecurityPrompt = FALSE
    /\ handlers = <<>>
    /\ finished = NoneFinished
    /\ shellLine = <<>>
    /\ lastWrite = <<>>
    /\ lastInput = ""

diskUnchanged ==
    UNCHANGED <<cache, now, variant, config, currentInput, checks,
                pendingSecurityCheck, isInSecurityPrompt, handlers, shellLine,
                lastWrite, lastInput>>

\* Packages one may ignore; the name of one begins with the name of another.
DiskNames == JsNames \cup {"react-dom"}

Ran(op, packageName, writeOk, threw) ==
    [set |-> TRUE, op |-> op, packageName |-> packageName, writeOk |-> writeOk,
     threw |-> threw]

\* JavaScriptScoringEngine.calculateScore, whose last statement is
\* setCachedScore: the entry is put into cacheData, writeFileSync stands in a
\* try with an empty catch.
ScoreOnDisk(name, info, writeOk) ==
    /\ ops < MaxOps
    /\ ops' = ops + 1
    /\ LET r == JsCalculateScore(name, info, now, ignoredPackages, cacheData)
       IN  /\ cacheData' = r.cacheData
           /\ lastScore' = [called |-> TRUE, ecosystem |-> "javascript", name |-> name,
                            info |-> info, result |-> r.result]
    /\ finished' = Ran("setCachedScore", name, writeOk, FALSE)
    /\ UNCHANGED <<ignoreFile, ignoredPackages>>
    /\ diskUnchanged

\* removeCachedScore: when the entry exists it is deleted and the file is
\* written, outside any try.
RemoveOnDisk(language, name, writeOk) ==
    /\ ops < MaxOps
    /\ ops' = ops + 1
    /\ cacheData' = removeCachedScore(cacheData, language, name)
    /\ finished' = Ran("removeCachedScore", name, writeOk,
                       <<language, name>> \in DOMAIN cacheData /\ ~writeOk)
    /\ UNCHANGED <<ignoreFile, ignoredPackages, lastScore>>
    /\ diskUnchanged

\* pkgguard.ignorePackage: appendFileSync stands outside any try; when it
\* throws the handler ends there.
IgnoreOnDisk(packageName, note, writeOk) ==
    /\ ops < MaxOps
    /\ ops' = ops + 1
    /\ IF writeOk THEN IgnoredState(packageName, note)
       ELSE UNCHANGED <<ignoreFile, ignoredPackages, cacheData>>
    /\ finished' = Ran("ignorePackage", packageName, writeOk, ~writeOk)
    /\ UNCHANGED lastScore
    /\ diskUnchanged

\* pkgguard.unignorePackage: writeFileSync of the filtered lines stands
\* outside any try; when it throws the handler ends there.
UnignoreOnDisk(packageName, writeOk) ==
    /\ ops < MaxOps
    /\ ops' = ops + 1
    /\ IF writeOk THEN UnignoredState(packageName)
       ELSE UNCHANGED <<ignoreFile, ignoredPackages, cacheData>>
    /\ finished' = Ran("unignorePackage", packageName, writeOk,
                       ignoreFile # <<>> /\ ~writeOk)
    /\ UNCHANGED lastScore
    /\ diskUnchanged

\* The user deletes line k of the ignore file in an editor; the watcher set
\* by loadIgnoreFile (fs.watchFile) calls loadIgnoreFile, which rebuilds the
\* registry from the file.  The cache is not touched.
IgnoreFileEdited(k) ==
    /\ k \in DOMAIN ignoreFile
    /\ ignoreFile[k] # <<>>
    /\ ignoreFile' = RemoveAt(ignoreFile, k)
    /\ ignoredPackages' = loadIgnoreFile(ignoreFile')
    /\ finished' = Ran("loadIgnoreFile", ignoreFile[k][1], TRUE, FALSE)
    /\ UNCHANGED <<cacheData, lastScore, ops>>
    /\ diskUnchanged

NextDisk ==
    \/ \E name \in JsNames, info \in Infos, writeOk \in BOOLEAN :
          ScoreOnDisk(name, info, writeOk)
    \/ \E language \in Ecosystems, name \in JsNames, writeOk \in BOOLEAN :
          RemoveOnDisk(language, name, writeOk)
    \/ \E packageName \in DiskNames, note \in Notes, writeOk \in BOOLEAN :
          IgnoreOnDisk(packageName, note, writeOk)
    \/ \E packageName \in DiskNames, writeOk \in BOOLEAN :
          UnignoreOnDisk(packageName, writeOk)
    \/ \E k \in 1..(MaxOps + 1) : IgnoreFileEdited(k)

SpecDisk == InitDisk /\ [][NextDisk]_vars

---------------------------------------------------------------------------
\* retryWithBackoff (extension.ts).  handlers holds the one invocation: its
\* arguments, its locals attempt and delay, where it stands (pc), how often
\* fn has been invoked (calls) and the delays it has slept (waited).
\* outcomes[k] is how the k-th invocation of fn settles.

MaxRetryAttempts == 4
DefaultMaxAttempts == 3
DefaultInitialDelay == 500

InitialDelays == {0, 1, DefaultInitialDelay}

FnOutcomes == [1..(MaxRetryAttempts + 1) -> {"resolves", "rejects"}]

\* How the k-th invocation of fn settles.
Settles(f, k) == IF k \in DOMAIN f.outcomes THEN f.outcomes[k] ELSE "rejects"

\* A delay that stays what it is.
NextDelay_Constant(delay) == delay

\* delay *= 2
NextDelay(delay) == delay * 2

InitRetry ==
    /\ ScoringIdle
    /\ variant = "simple"
    /\ config = DefaultConfig
    /\ currentInput = <<>>
    /\ checks = <<>>
    /\ pendingSecurityCheck = NoRequest
    /\ isInSecurityPrompt = FALSE
    /\ \E outcomes \in FnOutcomes, maxAttempts \in 0..MaxRetryAttempts,
          initialDelay \in InitialDelays :
          handlers = <<[outcomes |-> outcomes, maxAttempts |-> maxAttempts,
                        initialDelay |-> initialDelay, attempt |-> 0,
                        delay |-> initialDelay, pc |-> "try", calls |-> 0,
                        waited |-> <<>>]>>
    /\ finished = NoneFinished
    /\ shellLine = <<>>
    /\ lastWrite = <<>>
    /\ lastInput = ""

retryUnchanged ==
    UNCHANGED <<scoreVars, variant, config, currentInput, checks, pendingSecurityCheck,
                isInSecurityPrompt, finished, shellLine, lastWrite, lastInput>>

\* try { return await fn(): fn is invoked.
InvokeFn ==
    /\ handlers[1].pc = "try"
    /\ handlers' = <<[handlers[1] EXCEPT !.calls = @ + 1, !.pc = "await"]>>
    /\ retryUnchanged

\* The invocation settles.  Resolved: its value is returned.  Rejected, the
\* catch block: attempt++; if (attempt >= maxAttempts) throw err; otherwise
\* the timer is set.
FnSettles ==
    /\ handlers[1].pc = "await"
    /\ LET f == handlers[1]
       IN  handlers' =
             <<IF Settles(f, f.calls) = "resolves"
               THEN [f EXCEPT !.pc = "returned"]
               ELSE IF f.attempt + 1 >= f.maxAttempts
               THEN [f EXCEPT !.attempt = @ + 1, !.pc = "threw"]
               ELSE [f EXCEPT !.attempt = @ + 1, !.pc = "sleep"]>>
    /\ retryUnchanged

\* setTimeout(res, delay) fires; delay *= 2 and the loop goes round.
TimerFires ==
    /\ handlers[1].pc = "sleep"
    /\ handlers' = <<[handlers[1] EXCEPT !.waited = Append(@, handlers[1].delay),
                                         !.delay = NextDelay(@),
                                         !.pc = "try"]>>
    /\ retryUnchanged

NextRetry == InvokeFn \/ FnSettles \/ TimerFires

\* Every invocation of fn settles and every timer fires.
SpecRetry == InitRetry /\ [][NextRetry]_vars /\ WF_vars(NextRetry)

---------------------------------------------------------------------------
\* runWithConcurrency(tasks, limit) (extension.ts).  handlers holds the one
\* call: its tasks (how each settles: rejected, or resolved with a value),
\* limit, the shared index i (the number of tasks taken so far), results
\* (the array, as a function on the indices assigned so far), runners
\* (for each runner the index of the task it awaits, 0 once it has
\* returned), started (how often each task has been invoked) and the place
\* of the caller.  Indices are counted from 1.

MaxTasks == 3

TaskOutcomes == {"rejects", "a", "b"}

TaskLists == UNION {[1..n -> TaskOutcomes] : n \in 0..MaxTasks}

Limits == (0 - 1)..MaxTasks

\* A runner for every task, whatever the limit.
RunnerCount_PerTask(limit, length) == length

\* Array.from({ length: Math.min(limit, tasks.length) }, ...): a negative
\* length makes an empty array.
RunnerCount(limit, length) == Max(0, Min(limit, length))

\* try { results[idx] = await task() } catch { results[idx] = undefined }
TaskResult(outcome) == IF outcome = "rejects" THEN "undefined" ELSE outcome

\* results[idx] = value
AssignResult(results, idx, value) ==
    [j \in DOMAIN results \cup {idx} |-> IF j = idx THEN value ELSE results[j]]

InitRun ==
    /\ ScoringIdle
    /\ variant = "simple"
    /\ config = DefaultConfig
    /\ currentInput = <<>>
    /\ checks = <<>>
    /\ pendingSecurityCheck = NoRequest
    /\ isInSecurityPrompt = FALSE
    /\ \E tasks \in TaskLists, limit \in Limits :
          handlers = <<[tasks |-> tasks, limit |-> limit, i |-> 0,
                        results |-> [j \in {} |-> "undefined"],
                        runners |-> <<>>,
                        started |-> [j \in DOMAIN tasks |-> 0],
                        pc |-> "called"]>>
    /\ finished = NoneFinished
    /\ shellLine = <<>>
    /\ lastWrite = <<>>
    /\ lastInput = ""

runUnchanged ==
    UNCHANGED <<scoreVars, variant, config, currentInput, checks, pendingSecurityCheck,
                isInSecurityPrompt, finished, shellLine, lastWrite, lastInput>>

\* The synchronous part of the call: every runner is created and runs as far
\* as its first await, so runner k takes task k and invokes it.
StartRunners ==
    /\ handlers[1].pc = "called"
    /\ LET f == handlers[1]
           count == RunnerCount(f.limit, Len(f.tasks))
       IN  handlers' =
             <<[f EXCEPT !.i = count,
                         !.runners = [k \in 1..count |-> k],
                         !.started = [j \in DOMAIN f.tasks |->
                                        IF j <= count THEN 1 ELSE 0],
                         !.pc = "awaiting"]>>
    /\ runUnchanged

\* The task runner r awaits settles: its result is stored, and runNext()
\* either finds no task left and returns or takes the next one.
TaskSettles(r) ==
    /\ handlers[1].pc = "awaiting"
    /\ r \in DOMAIN handlers[1].runners
    /\ handlers[1].runners[r] # 0
    /\ LET f == handlers[1]
           idx == f.runners[r]
           stored == AssignResult(f.results, idx, TaskResult(f.tasks[idx]))
       IN  handlers' =
             <<IF f.i >= Len(f.tasks)
               THEN [f EXCEPT !.results = stored, !.runners[r] = 0]
               ELSE [f EXCEPT !.results = stored,
                              !.runners[r] = f.i + 1,
                              !.started[f.i + 1] = @ + 1,
                              !.i = @ + 1]>>
    /\ runUnchanged

\* await Promise.all(runners); return results
ReturnResults ==
    /\ handlers[1].pc = "awaiting"
    /\ \A r \in DOMAIN handlers[1].runners : handlers[1].runners[r] = 0
    /\ handlers' = <<[handlers[1] EXCEPT !.pc = "returned"]>>
    /\ runUnchanged

NextRun ==
    \/ StartRunners
    \/ \E r \in 1..(MaxTasks + 1) : TaskSettles(r)
    \/ ReturnResults

\* Every task settles, and every continuation runs.
SpecRun == InitRun /\ [][NextRun]_vars /\ WF_vars(NextRun)

---------------------------------------------------------------------------
\* Manifest installs (handleManifestCommand and the handlers it calls).
\* checks holds the one command entered with what it meets: the mode, the
\* manifest in the working directory (null when there is none), how each of
\* its packages scores, whether requirements-safe.txt can be written and
\* what that file holds beforehand.  finished holds what was done: the
\* command line executed (ran, empty when none), the names reported as
\* blocked, and the names the executed command installs from the manifest
\* file it names.  A requirements line is a sequence of pieces as a word of
\* a command line is; package.json is the sequence of its dependency names.

ManifestCommands == {"pip install -r requirements.txt", "npm install"}

RequirementsFiles ==
    {<<<<"evil", "==", "1.0">>, <<"flask">>>>, <<<<"evil">>>>}

PackageJsonFiles == {<<"evil", "react">>, <<"evil">>}

ManifestModes == {"interactive", "monitor", "block", "disabled"}

ScoredLevels == {"low", "high", "threw"}

\* parseManifestFile on requirements.txt: the clean name of every line.
parseRequirements(lines) ==
    LET kept == SelectSeq(lines, LAMBDA l : cleanPackageName(l) # "" /\ l[1] # "-")
    IN  [j \in DOMAIN kept |-> [name |-> cleanPackageName(kept[j]), ecosystem |-> "python"]]

\* parseManifestFile on package.json: the keys of dependencies.
parsePackageJson(names) ==
    [j \in DOMAIN names |-> [name |-> names[j], ecosystem |-> "javascript"]]

\* packages.filter(p => !blockedPackages.includes(p.name))
SafePackages(packages, blocked) ==
    SelectSeq(packages, LAMBDA p : p.name \notin Range(blocked))

\* createFilteredRequirements: requirements-safe.txt afterwards.  The lines
\* of the original whose clean name is a safe package are written; a failed
\* write is caught and leaves the file as it was.
createFilteredRequirements(safePackages, originalLines, writeOk, before) ==
    IF writeOk
    THEN SelectSeq(originalLines,
                   LAMBDA l : \E j \in DOMAIN safePackages :
                                 safePackages[j].name = cleanPackageName(l))
    ELSE before

\* The packages pip installs from a requirements file.
Requires(lines) == {lines[j][1] : j \in DOMAIN lines}

Done(command, ran, blocked, installs) ==
    [set |-> TRUE, command |-> command, ran |-> ran, blocked |-> blocked,
     installs |-> installs]

InitManifest ==
    /\ ScoringIdle
    /\ variant = "simple"
    /\ config = DefaultConfig
    /\ currentInput = <<>>
    /\ \E command \in ManifestCommands, securityMode \in ManifestModes,
          exists \in BOOLEAN, writeOk \in BOOLEAN :
          \E manifest \in (IF command = "npm install" THEN PackageJsonFiles
                           ELSE RequirementsFiles) :
             \E levels \in [DOMAIN manifest -> ScoredLevels],
                before \in {<<>>, manifest} :
                checks = <<[command |-> command, securityMode |-> securityMode,
                            exists |-> exists, manifest |-> manifest,
                            levels |-> levels, writeOk |-> writeOk,
                            before |-> before]>>
    /\ pendingSecurityCheck = NoRequest
    /\ isInSecurityPrompt = FALSE
    /\ handlers = <<>>
    /\ finished = NoneFinished
    /\ shellLine = <<>>
    /\ lastWrite = <<>>
    /\ lastInput = ""

manifestUnchanged ==
    UNCHANGED <<scoreVars, variant, config, currentInput, checks, pendingSecurityCheck,
                isInSecurityPrompt, handlers, shellLine, lastInput>>

\* handleNativePipCommand
HandleNativePipCommand ==
    /\ ~finished.set
    /\ checks[1].command = "pip install -r requirements.txt"
    /\ LET c == checks[1]
           packages == parseRequirements(c.manifest)
           blockedPackages ==
               getBlockedPackages(c.securityMode, packages, c.levels).blocked
           safePackages == SafePackages(packages, blockedPackages)
           safeFile == createFilteredRequirements(safePackages, c.manifest,
                                                  c.writeOk, c.before)
       IN  IF ~c.exists
           THEN /\ finished' = Done(c.command, <<c.command>>, <<>>, {})
                /\ lastWrite' = <<>>
           ELSE IF blockedPackages # <<>> /\ safePackages # <<>>
           THEN /\ finished' = Done(c.command,
                                    <<"pip install -r requirements-safe.txt">>,
                                    blockedPackages, Requires(safeFile))
                /\ lastWrite' = <<"summary">>
           ELSE IF blockedPackages # <<>>
           THEN /\ finished' = Done(c.command, <<>>, blockedPackages, {})
                /\ lastWrite' = <<"all blocked", "report">>
           ELSE /\ finished' = Done(c.command, <<c.command>>, <<>>,
                                    Requires(c.manifest))
                /\ lastWrite' = IF packages # <<>> THEN <<"summary">> ELSE <<>>
    /\ manifestUnchanged

\* handleNativeJSInstall
HandleNativeJSInstall ==
    /\ ~finished.set
    /\ checks[1].command = "npm install"
    /\ LET c == checks[1]
           packages == parsePackageJson(c.manifest)
           blockedPackages ==
               getBlockedPackages(c.securityMode, packages, c.levels).blocked
       IN  IF ~c.exists
           THEN /\ finished' = Done(c.command, <<c.command>>, <<>>, {})
                /\ lastWrite' = <<>>
           ELSE /\ finished' = Done(c.command, <<c.command>>, blockedPackages,
                                    Range(c.manifest))
                /\ lastWrite' = IF packages # <<>> THEN <<"summary">> ELSE <<>>
    /\ manifestUnchanged

NextManifest == HandleNativePipCommand \/ HandleNativeJSInstall

SpecManifest == InitManifest /\ [][NextManifest]_vars

---------------------------------------------------------------------------
\* Properties.

\* The configuration makes a risky install a refusal by policy.
BlockMode ==
    CASE variant = "simple" -> config.securityMode = "block"
      [] variant = "smart" -> config.blockingMode = "strict"
      [] OTHER -> config.preventRiskyInstalls

Builtins(eco) == IF eco = "python" THEN PYTHON_STDLIB ELSE NODE_BUILTINS

\* C1: in block mode a check that found a low-scoring package ends with the
\* decision false, by policy, without an approval request ever being created
\* and without any key being given to a prompt handler.
C1_BlockModeRefusesWithoutPrompt ==
    BlockMode =>
        /\ ~pendingSecurityCheck.set
        /\ handlers = <<>>
        /\ lastInput = ""
        /\ \A i \in DOMAIN checks : checks[i].state # "awaiting"
        /\ (finished.set /\ highRiskPackages(finished.check.results) # {}) =>
              /\ ~finished.check.proceed
              /\ ~finished.check.prompted
              /\ finished.check.via = "policy-block"
              /\ finished.ran = <<>>

C1_Witness ==
    /\ variant = "simple"
    /\ config.securityMode = "block"
    /\ finished.set
    /\ highRiskPackages(finished.check.results) # {}
    /\ ~finished.check.proceed

\* C2 as stated: a name outside the Ignore Registry scored with metadata that
\* says exists=false gets score 0 and level low.
C2_NonexistentScoresZero ==
    (lastScore.called /\ ~lastScore.inRegistry /\ ~lastScore.info.exists) =>
        (lastScore.result.score = 0 /\ lastScore.result.level = "low")

\* C2 amended: a name outside the Ignore Registry that is neither a standard
\* library / builtin module name nor served from an unexpired cache entry,
\* scored with metadata that says exists=false, gets score 0 and level low
\* whatever else the metadata says.
C2_NonexistentScoresZeroUnlessShortCircuited ==
    (/\ lastScore.called
     /\ ~lastScore.inRegistry
     /\ ~lastScore.info.exists
     /\ lastScore.name \notin Builtins(lastScore.ecosystem)
     /\ ~lastScore.cached) =>
        (lastScore.result.score = 0 /\ lastScore.result.level = "low")

C2_Witness ==
    /\ lastScore.called
    /\ ~lastScore.inRegistry
    /\ lastScore.info = Vanished
    /\ lastScore.name \notin Builtins(lastScore.ecosystem)
    /\ ~lastScore.cached
    /\ lastScore.result.score = 0

\* C3: a package with an entry in the Ignore Registry is scored level ignored
\* with a null score, whatever the metadata.
C3_IgnoredPackageScoresIgnored ==
    (lastScore.called /\ lastScore.inRegistry) =>
        (lastScore.result.level = "ignored" /\ lastScore.result.score = NullScore)

\* C4: a package whose registry lookup failed is counted among the low-scoring
\* packages of the policy decision.
C4_FailedLookupCountsAsLow ==
    (finished.set /\ finished.check.via # "unchecked") =>
        finished.check.failed \subseteq highRiskPackages(finished.check.results)

\* C5: at most one approval request is outstanding at any time.
C5_OneOutstandingRequest ==
    Cardinality({i \in DOMAIN checks : checks[i].state = "awaiting"}) <= 1

\* C6: Ctrl+C given to a pending approval prompt resolves the request with
\* proceed=false and the request is gone.
C6_CancelResolvesFalse ==
    [][(InPromptState /\ lastInput' = CtrlC) =>
          /\ finished'.set
          /\ finished'.id = pendingSecurityCheck.resolve
          /\ ~finished'.check.proceed
          /\ pendingSecurityCheck' = NoRequest]_vars

\* C7: y given to a pending approval prompt resolves the request with
\* proceed=true, n or a bare Enter with proceed=false; either way the request
\* is destroyed and the terminal has left the prompt state.
C7_DecisionEqualsResponse ==
    [][(InPromptState /\ lastInput' \in {"y", "Y", "n", Enter}) =>
          /\ finished'.set
          /\ finished'.id = pendingSecurityCheck.resolve
          /\ finished'.check.proceed = (keyToLowerCase(lastInput') = "y")
          /\ pendingSecurityCheck' = NoRequest
          /\ ~InPromptState']_vars

C7_Witness ==
    /\ finished.set
    /\ finished.check.prompted
    /\ lastInput = Enter
    /\ ~finished.check.proceed
    /\ ~pendingSecurityCheck.set

\* C8: when a request is resolved true by the response i, every flagged
\* (low-scoring) package of the command is in the Ignore Registry.
C8_IgnoreThenProceed ==
    (finished.set /\ finished.check.via = "i" /\ finished.check.proceed) =>
        highRiskPackages(finished.check.results) \subseteq DOMAIN ignoredPackages

\* C9: input to a pending approval prompt that is none of y, n, d, i, Enter,
\* Ctrl+C leaves the request pending and the prompt state on, and the options
\* are shown again.
C9_InvalidInputReprompts ==
    [][(InPromptState /\ lastInput' = "x") =>
          /\ pendingSecurityCheck' = pendingSecurityCheck
          /\ InPromptState'
          /\ "options" \in Range(lastWrite')]_vars

\* The details of the pending request have just been shown in full.
DetailsShown ==
    InPromptState /\ lastWrite = <<"detail", "options">>

\* C10: the response d leaves the request pending, and once the details have
\* been shown a y or n resolves the request and an i starts ignoring its
\* packages.
C10_DetailsDoNotConsume ==
    [][/\ (InPromptState /\ lastInput' = "d") =>
             (pendingSecurityCheck' = pendingSecurityCheck /\ InPromptState')
       /\ (DetailsShown /\ lastInput' \in {"y", "n"}) =>
             (finished'.set /\ finished'.id = pendingSecurityCheck.resolve)
       /\ (DetailsShown /\ lastInput' = "i") =>
             (Len(handlers') = Len(handlers) + 1)]_vars

\* C11: a Ctrl+C that arrives while a check is analysing its packages ends
\* that command: the check never reaches the approval prompt, and when it
\* settles the command is not allowed and nothing is run for it.
C11_CancelDuringAnalysisAborts ==
    /\ \A i \in DOMAIN checks : checks[i].cancelled => checks[i].state # "awaiting"
    /\ (finished.set /\ finished.check.cancelled) =>
          /\ ~finished.check.proceed
          /\ finished.ran = <<>>

\* C12: when a checked command is refused, the risk factors of every
\* low-scoring package of the check have been written to the terminal before
\* the refusal.
C12_RefusalStatesWhy ==
    (finished.set /\ ~finished.check.proceed) =>
        highRiskPackages(finished.check.results) \subseteq finished.check.explained

\* The mode setting the terminal reads is disabled.
DisabledMode == variant # "blocking" /\ ModeRead(variant, config) = "disabled"

\* The packages of a manifest and the levels its lookups may give.
ManifestPackages == extractPackageInfo("pip install evil flask")
ManifestLevels == [DOMAIN ManifestPackages -> {"low", "high", "threw"}]

\* C13: with the mode disabled no check is ever started, so no adapter and no
\* engine is called and nothing is cached; no request and no prompt handler
\* exists; every command that is entered is run as typed, unchecked; and the
\* check of a manifest install blocks nothing and scores nothing.
C13_DisabledAllowsWithoutScoring ==
    DisabledMode =>
        /\ \A i \in DOMAIN checks : checks[i] = Settled
        /\ cacheData = EmptyMap
        /\ ~pendingSecurityCheck.set
        /\ handlers = <<>>
        /\ finished.set =>
              /\ finished.check.proceed
              /\ finished.check.via = "unchecked"
              /\ finished.check.results = <<>> /\ finished.check.failed = {}
        /\ \A levels \in ManifestLevels :
              getBlockedPackages(ModeRead(variant, config), ManifestPackages, levels)
                  = [blocked |-> <<>>, scored |-> {}]

\* An install command has been entered with the mode disabled and been run.
C13_Witness ==
    /\ DisabledMode
    /\ finished.set
    /\ IsInstallCommand(finished.check.command)
    /\ finished.ran # <<>>

\* The threshold function of each engine on a whole score.
LevelOf(eco, score) ==
    IF eco = "python" THEN determineLevel(score * Scale)
    ELSE jsDetermineLevel(score * Scale)

\* C14: the level of a returned result that carries a score is the engine's
\* threshold function of that score: Python 80 / 50, JavaScript 75 / 45.
C14_LevelIsThresholdOfScore ==
    (lastScore.called /\ lastScore.result.score # NullScore) =>
        lastScore.result.level = LevelOf(lastScore.ecosystem, lastScore.result.score)

\* C15: the score of every returned result is null, and then the level is
\* ignored, or a whole number from 0 to 100.
C15_ScoreNullOrInRange ==
    lastScore.called =>
        IF lastScore.result.score = NullScore
        THEN lastScore.result.level = "ignored"
        ELSE lastScore.result.score \in 0..100

\* A top package whose base score and boosts add up to more than 100 has been
\* scored from its metadata.
C15_Witness ==
    /\ lastScore.called
    /\ lastScore.name = "flask" /\ lastScore.info = Blockbuster
    /\ ~lastScore.cached /\ ~lastScore.inRegistry
    /\ computeScore(Evidence(Blockbuster, now)) + 50 * Scale > 100 * Scale
    /\ lastScore.result.score = 100

\* C16: once the editor has scored a package, scoring the same package again
\* at once, whatever the registry would answer now, gives the identical result
\* and does not ask the registry.
C16_RescoreIsServedFromCache ==
    [][(lastScore'.called /\ lastScore'.by = "editor" /\ ops' = ops + 1
        /\ lastScore' # lastScore) =>
          \A outcome \in EditorOutcomes :
             LET again == validateAndDecorate(lastScore'.ecosystem, lastScore'.name,
                                              outcome, ignoredPackages', cacheData', now')
             IN  again.result = lastScore'.result /\ ~again.fetched]_vars

\* A step in which a package was scored.
ScoringStep == lastScore'.called /\ ops' = ops + 1 /\ lastScore' # lastScore

\* C17: when a scoring computes a result from metadata (the package is not
\* ignored, not a standard-library or builtin name and was not served from a
\* cache), the persistent cache holds that result under the package's key
\* when the scoring returns, a nonexistent package's score 0 included.
C17_ComputedScoreIsCached ==
    [][(/\ ScoringStep
        /\ ~lastScore'.cached
        /\ lastScore'.result.level # "ignored"
        /\ lastScore'.name \notin Builtins(lastScore'.ecosystem)) =>
          /\ getCachedScore(cacheData', lastScore'.ecosystem, lastScore'.name,
                            CacheTTLSeconds, now')
          /\ cacheData'[<<lastScore'.ecosystem, lastScore'.name>>].score
                = lastScore'.result]_vars

\* The result an engine computes from metadata alone: nothing ignored,
\* nothing cached.
Recomputed(eco, name, info, t) ==
    IF eco = "python" THEN PyCalculateScore(name, info, t, EmptyMap, EmptyMap).result
    ELSE JsCalculateScore(name, info, t, EmptyMap, EmptyMap).result

\* The step took every line of package p out of the ignore file.
Unignored(p) ==
    /\ ops' = ops + 1
    /\ Len(ignoreFile') < Len(ignoreFile)
    /\ \E k \in DOMAIN ignoreFile : StartsWith(ignoreFile[k], p)
    /\ \A k \in DOMAIN ignoreFile' : ~StartsWith(ignoreFile'[k], p)

C19_TyposquatScoresBelowTopPackage ==
    [][(/\ ScoringStep
        /\ lastScore'.ecosystem = "python"
        /\ ~lastScore'.cached
        /\ lastScore'.result.level # "ignored"
        /\ toLowerCase(lastScore'.name) \notin Range(topPyPiPackages)
        /\ isTyposquat(lastScore'.name) \in Range(topPyPiPackages)
        /\ ~IsHallucination(Evidence(lastScore'.info, now'), lastScore'.info)) =>
          /\ "typosquat" \in lastScore'.result.scoreReasons
          /\ lastScore'.result.score <
                Recomputed("python", isTyposquat(lastScore'.name),
                           lastScore'.info, now').score]_vars

\* The name a package spec stands for and whether a word is a flag.
SpecName(spec) == spec[1]
IsFlag(spec) == spec[1] = "-"

\* C20: for a line that is an install verb followed by package specs, the
\* packages extracted are one reference per spec that is not a flag, in the
\* order typed, each with the bare name of its spec and the ecosystem of the
\* verb.
C20_OneReferencePerSpec ==
    \A c \in Range(checks) : \A k \in DOMAIN allPatterns :
        IsPrefix(allPatterns[k].pattern, c.command) =>
            LET specs == SubSeq(c.command, Len(allPatterns[k].pattern) + 1,
                                Len(c.command))
                named == SelectSeq(specs, LAMBDA w : ~IsFlag(w))
            IN  /\ c.checked
                /\ c.packages = [j \in DOMAIN named |->
                                    [name |-> SpecName(named[j]),
                                     ecosystem |-> allPatterns[k].ecosystem]]

\* C21: for a command line without an install verb, an uninstall or remove
\* command and the empty line among them, the monitor's extractor and the
\* terminal's extractor both return the empty list.
C21_NoInstallVerbNoPackages ==
    \A c \in Range(checks) :
        c.command \in NonInstallLines =>
            /\ c.packages = <<>>
            /\ extractPackages(c.command) = <<>>

\* The packages of an uninstall command have been extracted.
C21_Witness ==
    /\ checks # <<>>
    /\ checks[1].command = <<<<"pip">>, <<"uninstall">>, <<"flask">>>>
    /\ checks[1].packages = <<>>

\* The bare name of a spec, the scope of a scoped name kept.
BareName(spec) == IF spec[1] = "@" THEN "@" \o spec[2] ELSE spec[1]

\* The spec is not a package name: empty, blank, a flag, or holding a blank.
NotAName(spec) ==
    \/ TrimPieces(spec) = <<>>
    \/ spec[1] \in Dashes
    \/ \E j \in DOMAIN spec : spec[j] \in Blanks

\* C22: cleanPackageName returns the bare name of every valid spec, pins,
\* extras and a trailing version tag removed and the scope of a scoped npm
\* name kept; and an install line whose first spec is a scoped package
\* yields at least one package.
C22_CleanNameKeepsScope ==
    /\ \A w \in Range(lastWrite) :
          ~NotAName(w.spec) => w.result = [null |-> FALSE, name |-> BareName(w.spec)]
    /\ \A c \in Range(checks) : \A k \in DOMAIN monitorPatterns :
          (/\ IsPrefix(monitorPatterns[k].pattern, c.command)
           /\ Len(c.command) > Len(monitorPatterns[k].pattern)
           /\ c.command[Len(monitorPatterns[k].pattern) + 1] = <<"@", "types/node">>) =>
              c.packages # <<>>

\* C23: cleanPackageName returns null for every spec that is not a package
\* name: one that begins with "-", one that holds a blank, the empty and the
\* blank string.
C23_CleanNameRejectsNonNames ==
    \A w \in Range(lastWrite) : NotAName(w.spec) => w.result = Null

\* The position of a name in a list of distinct names.
IndexOf(packages, n) == CHOOSE i \in DOMAIN packages : packages[i] = n

\* The results reported so far stand in the order of extraction.
InExtractionOrder(c) ==
    \A a, b \in DOMAIN c.reported :
        a < b => IndexOf(c.packages, c.reported[a]) < IndexOf(c.packages, c.reported[b])

\* C24: within one analysis pass, of a command or of a document, the results
\* are reported in the order the packages were extracted, whatever the order
\* in which the registry calls are answered.
C24_ReportedInExtractionOrder == \A c \in Range(checks) : InExtractionOrder(c)

\* The registry that results from applying the operations one after another.
RECURSIVE Sequentially(_)
Sequentially(operations) ==
    IF operations = <<>> THEN {}
    ELSE IF Last(operations).op = "ignore"
    THEN Sequentially(Front(operations)) \cup {Last(operations).packageName}
    ELSE Sequentially(Front(operations)) \ {Last(operations).packageName}

\* C25: however ignore and unignore commands issued concurrently interleave,
\* the persisted ignore file and the loaded registry hold exactly what
\* applying the operations one after another, in the order they ran, gives:
\* no update is lost.
C25_RegistryIsSequential ==
    /\ DOMAIN loadIgnoreFile(ignoreFile) = Sequentially(finished)
    /\ DOMAIN ignoredPackages = Sequentially(finished)

\* Two ignore commands were in flight together and ran in the reverse order,
\* an unignore ran as well, and a package is still ignored.
C25_Witness ==
    /\ Len(finished) = 3
    /\ \E a, b \in DOMAIN finished :
          /\ a < b
          /\ finished[a].issued > finished[b].issued
          /\ finished[a].op = "ignore"
          /\ finished[b].op = "ignore"
    /\ \E c \in DOMAIN finished : finished[c].op = "unignore"
    /\ ignoredPackages # EmptyMap

\* C26: an operation that persists a cache entry, removes one or persists a
\* change of the ignore registry does not throw to its caller when the disk
\* refuses the write.
C26_WriteFailureIsSwallowed == (finished.set /\ ~finished.writeOk) => ~finished.threw

\* A name that is neither a top package nor close to one.
PlainName == CHOOSE n \in PyNames \ PYTHON_STDLIB :
                 toLowerCase(n) \notin Range(topPyPiPackages) /\ isTyposquat(n) = ""

\* C27: in the Python engine a name that is not a top package and lies at
\* edit distance 1 from a top package gets, when scored from metadata, the
\* score the same metadata gets without the typosquat match, lowered by 60
\* and floored at 0.
C27_TyposquatCostsSixty ==
    [][(/\ ScoringStep
        /\ lastScore'.ecosystem = "python"
        /\ ~lastScore'.cached
        /\ lastScore'.result.level # "ignored"
        /\ toLowerCase(lastScore'.name) \notin Range(topPyPiPackages)
        /\ isTyposquat(lastScore'.name) \in Range(topPyPiPackages)) =>
          lastScore'.result.score =
              Max(0, Recomputed("python", PlainName, lastScore'.info, now').score - 60)]_vars

\* The top packages of an ecosystem.
TopPackages(eco) ==
    IF eco = "python" THEN Range(topPyPiPackages) ELSE Range(topNpmPackages)

\* C28: a name in the top-package set of its ecosystem, compared without
\* regard to case, whose package exists with a known latest release is
\* scored at least 85.
C28_TopPackageScoresAtLeast85 ==
    [][(/\ ScoringStep
        /\ ~lastScore'.cached
        /\ lastScore'.result.level # "ignored"
        /\ toLowerCase(lastScore'.name) \in TopPackages(lastScore'.ecosystem)
        /\ lastScore'.info.exists
        /\ lastScore'.info.latestRelease > 0) =>
          lastScore'.result.score >= 85]_vars

\* C29: one calculateScore pass issues at most one GitHub statistics lookup,
\* and none when the metadata carries no GitHub repository URL.
C29_AtMostOneGitHubLookup ==
    lastScore.called =>
        /\ lastScore.lookups <= 1
        /\ ~lastScore.info.githubRepo => lastScore.lookups = 0

\* C30: a result computed from the metadata of an existing package with
\* releases lists the medium risk factor "Very recent release." exactly when
\* the latest release is less than 7 days old.
C30_VeryRecentMeansUnderSevenDays ==
    [][(/\ ScoringStep
        /\ ~lastScore'.cached
        /\ lastScore'.result.level # "ignored"
        /\ lastScore'.name \notin Builtins(lastScore'.ecosystem)
        /\ ~IsHallucination(Evidence(lastScore'.info, now'), lastScore'.info)) =>
          ("Very recent release." \in lastScore'.result.riskFactors
              <=> now' - lastScore'.info.latestRelease < 7)]_vars

RECURSIVE Pow2(_)
Pow2(n) == IF n = 0 THEN 1 ELSE 2 * Pow2(n - 1)

RetrySafe ==
    LET f == handlers[1]
    IN  /\ f.calls <= Max(1, f.maxAttempts)
        /\ f.pc = "returned" =>
              /\ Settles(f, f.calls) = "resolves"
              /\ \A k \in 1..(f.calls - 1) : Settles(f, k) = "rejects"
        /\ f.pc = "threw" =>
              /\ f.calls = Max(1, f.maxAttempts)
              /\ \A k \in 1..f.calls : Settles(f, k) = "rejects"
        /\ \A k \in DOMAIN f.waited : f.waited[k] = f.initialDelay * Pow2(k - 1)
        /\ Len(f.waited) = IF f.pc = "try" THEN f.calls ELSE f.calls - 1

C32_RefusedCommandNeverRuns ==
    [][(finished'.set /\ ~finished'.check.proceed) =>
          /\ finished'.ran = <<>>
          /\ finished'.check.command \notin Range(shellLine')]_vars

\* C33: with checking enabled, an install command is executed only after
\* every package named in it, plain or scoped, has been extracted for
\* scoring: a line that runs with nothing scored names no package.
C33_NoNamedPackageRunsUnscored ==
    \A c \in Range(checks) : \A k \in DOMAIN allPatterns :
        (shellLine # <<>> /\ IsPrefix(allPatterns[k].pattern, c.command)) =>
            \A j \in (Len(allPatterns[k].pattern) + 1)..Len(c.command) :
                ~IsFlag(c.command[j]) =>
                    \E p \in Range(c.packages) : p.name = BareName(c.command[j])

\* C34: unignoring package p takes exactly p out of the Ignore Registry:
\* every other ignored package, one whose name begins with p included, stays
\* with its note.
C34_UnignoreRemovesOnlyThatPackage ==
    [][(/\ finished'.set
        /\ finished'.op = "unignorePackage"
        /\ finished'.writeOk
        /\ ops' = ops + 1) =>
          /\ finished'.packageName \notin DOMAIN ignoredPackages'
          /\ \A q \in DOMAIN ignoredPackages \ {finished'.packageName} :
                /\ q \in DOMAIN ignoredPackages'
                /\ ignoredPackages'[q] = ignoredPackages[q]]_vars

\* C35: the response i adds to the Ignore Registry only those packages of
\* the command that scored low; its packages that scored medium or high are
\* not added.
C35_IgnoreAddsOnlyFlagged ==
    [][(pendingSecurityCheck.set /\ DOMAIN ignoredPackages' # DOMAIN ignoredPackages) =>
          (DOMAIN ignoredPackages' \ DOMAIN ignoredPackages)
              \subseteq highRiskPackages(checks[pendingSecurityCheck.resolve].results)]_vars

\* C36: a result with level ignored is returned only for a name that is in
\* the Ignore Registry when it is scored: after the name has left the
\* registry, by the unignore command or by an edit of the ignore file and
\* the reload, neither a scoring nor a cached lookup reports it as ignored.
C36_IgnoredOnlyWhileInRegistry ==
    [][(/\ finished'.set
        /\ finished'.op = "setCachedScore"
        /\ ops' = ops + 1
        /\ lastScore'.result.level = "ignored") =>
          lastScore'.name \in DOMAIN ignoredPackages]_vars

\* C37: an approval request is resolved at most once, and a handler that is
\* still working on an earlier response (showing details, ignoring
\* packages) when a further key resolves the request never acts on the
\* request after it has been cleared: every later step of such a handler
\* finds the request pending.
C37_HandlerNeverActsOnClearedRequest ==
    [][(handlers # <<>> /\ handlers' # handlers /\ Len(handlers') <= Len(handlers)) =>
          pendingSecurityCheck.set]_vars

\* C38: no approval request of SimplePkgGuardTerminal is left pending
\* forever: a check that awaits the user's answer is the one whose resolver
\* the pending request holds while the session is in the prompt state, so
\* that a valid response resolves it, destroys the request and leaves the
\* prompt state.
C38_AwaitedRequestCanBeAnswered ==
    variant = "simple" =>
        \A i \in DOMAIN checks :
            checks[i].state = "awaiting" =>
                /\ InPromptState
                /\ pendingSecurityCheck.resolve = i

\* The tasks of the call that are in flight.
InFlight == {r \in DOMAIN handlers[1].runners : handlers[1].runners[r] # 0}

\* Every task has been started once, has settled, and its result is at its
\* own index.
AllTasksRun ==
    LET f == handlers[1]
    IN  /\ \A j \in DOMAIN f.tasks : f.started[j] = 1
        /\ DOMAIN f.results = DOMAIN f.tasks
        /\ \A j \in DOMAIN f.tasks : f.results[j] = TaskResult(f.tasks[j])

RunSafe ==
    LET f == handlers[1]
    IN  /\ \A j \in DOMAIN f.tasks : f.started[j] <= 1
        /\ f.limit >= 1 => Cardinality(InFlight) <= f.limit
        /\ f.limit <= 0 => InFlight = {}
        /\ \A j \in DOMAIN f.results : f.results[j] = TaskResult(f.tasks[j])
        /\ f.pc = "returned" =>
              /\ InFlight = {}
              /\ IF f.limit >= 1 THEN AllTasksRun
                 ELSE /\ \A j \in DOMAIN f.tasks : f.started[j] = 0
                      /\ DOMAIN f.results = {}

C40_ManifestInstallLeavesOutBlocked ==
    (finished.set /\ checks[1].securityMode \in {"block", "interactive"}) =>
        Range(finished.blocked) \cap finished.installs = {}

===========================================================================
